---- MODULE Spec2Model ----
(***************************************************************************)
(* A model of the simul discrete-time multi-agent simulation kernel        *)
(* (src/src/lib.rs, src/src/agent.rs, src/src/message.rs).                 *)
(*                                                                         *)
(* Simulation::run is modelled as a process whose position in the code is  *)
(* pc: "constructed" (after Simulation::new), "check" (at the while        *)
(* condition), "dispatch" (inside the for loop, about to dispatch roster   *)
(* entry i), "drain" (inside process_command_buffer's while-let loop, or   *)
(* just after it, before self.time += 1) and "done" (run has returned).    *)
(***************************************************************************)
EXTENDS Integers, Sequences, FiniteSets, TLC

\* ------------------------------------------------------------------ bounds
\* Largest value of the threshold T of a time-based halt predicate.
MaxTime == 3
\* Total number of context calls (send, sleep_for, send_halt_interrupt) the
\* user-written agents of a roster issue in one run.
MaxIssued == 2
\* Largest threshold T of the halt predicate of the periodic rosters.
MaxPeriodicTime == 6
\* The number of queries called after a run.
MaxQueries == 2
\* The largest replication limit of a Monte Carlo search.
MaxReplications == 3
\* The largest replication limit of a simulated annealing search.
MaxAnnealing == 2

\* ------------------------------------------------------------ Option<T>
None == <<>>
Some(x) == <<x>>

\* ------------------------------------------------------------ AgentMode
Proactive == [tag |-> "Proactive"]
Reactive == [tag |-> "Reactive"]
Dead == [tag |-> "Dead"]
AsleepUntil(t) == [tag |-> "AsleepUntil", until |-> t]

IsAsleep(m) == m.tag = "AsleepUntil"

\* -------------------------------------------------------------- Message
\* Message { queued_time, completed_time, source, destination,
\* custom_payload, interrupt }.  No code path of the kernel reads or writes
\* interrupt; it is left out.  custom_payload is None or Some(n), n an
\* integer standing for the payload bytes.
Message(queued_time, src, dst, payload) ==
    [queued_time |-> queued_time, completed_time |-> None,
     source |-> src, destination |-> dst, custom_payload |-> payload]

\* ---------------------------------------------------------- VecDeque/Vec
pop_front(queue) == IF queue = <<>> THEN <<>> ELSE Tail(queue)
front(queue) == IF queue = <<>> THEN None ELSE Some(Head(queue))
push_front(queue, msg) == <<msg>> \o queue
\* Mutant: a delivery goes to the front of the queue.
push_back_at_front(queue, msg) == <<msg>> \o queue
push_back(queue, msg) == Append(queue, msg)
\* Vec::pop takes the LAST element.
pop_last(buffer) == SubSeq(buffer, 1, Len(buffer) - 1)
last(buffer) == buffer[Len(buffer)]

Max(x, y) == IF x >= y THEN x ELSE y

VARIABLES
    \* ---- Simulation (lib.rs:46-73)
    agents,                  \* Vec<Box<dyn Agent>>: the behaviours, roster order
    halt_check,              \* the halt predicate
    time,                    \* DiscreteTime
    enable_queue_depth_metric,
    enable_agent_asleep_cycles_metric,
    mode,                    \* SimulationMode
    agent_metadata_hash_table,
    agent_id_index_map,
    agent_states,            \* Vec<AgentState>
    \* ---- locals of Simulation::run
    command_buffer,          \* Vec<AgentCommand>
    i,                       \* index of the for loop over the roster
    pc,                      \* position in run
    \* ---- history variables (observe the run, never read by the kernel)
    starting_time,           \* SimulationParameters.starting_time
    ticks,                   \* number of loop iterations entered (ticks started)
    issued,                  \* context calls made so far by user-written agents
    calls,                   \* per roster entry: the callback invoked this tick,
                             \* the message passed and the status reported
    asleep_set_at,           \* per handle: tick in which the mode last became AsleepUntil
    last_wake,               \* per handle: the last wake-up the wake check made
    pending_retry,           \* per handle: the message last requeued and not yet re-offered
    failed,                  \* per handle: has ever reported Failed or InProgress
    arrived,                 \* per handle: every message ever appended to the queue, in order
    sends_issued,            \* per handle: SendMessage commands the agent has issued
    \* ---- the caller of the queries, after run
    last_query,              \* the last query called and what it returned
    queries,                 \* number of queries called
    \* ---- the searches of experiment.rs
    experiment,              \* which search is running, and whether it has returned
    replications_limit,
    approx_optimal_simulation, \* monte_carlo_experiment: Option<Simulation>
    high_score,
    replication,             \* iterations of monte_carlo_experiment's loop done
    samples,                 \* history: the score of each sampled run, in order
    work,                    \* history: generator calls, Simulations run, scores taken
    returned,                \* the value the search returned
    current_params,          \* simulated_annealing_experiment
    best_params,
    current_score,
    best_score,
    iteration,               \* iterations of the annealing loop done
    trail                    \* history: per iteration, the candidate and the decision

\* The Simulation, the locals of run and of the caller of the queries.
kernel ==
    <<agents, halt_check, time, enable_queue_depth_metric,
      enable_agent_asleep_cycles_metric, mode, agent_metadata_hash_table,
      agent_id_index_map, agent_states, command_buffer, i, pc,
      starting_time, ticks, issued, calls, asleep_set_at, last_wake,
      pending_retry, failed, arrived, sends_issued, last_query, queries>>

\* The locals of the searches.
search ==
    <<experiment, replications_limit, approx_optimal_simulation, high_score,
      replication, samples, work, returned, current_params, best_params,
      current_score, best_score, iteration, trail>>

vars == <<agents, halt_check, time, enable_queue_depth_metric,
          enable_agent_asleep_cycles_metric, mode, agent_metadata_hash_table,
          agent_id_index_map, agent_states, command_buffer, i, pc,
          starting_time, ticks, issued, calls, asleep_set_at, last_wake,
          pending_retry, failed, arrived, sends_issued, last_query, queries, search>>

\* --------------------------------------------------------- AgentContext
\* AgentCommandType (agent.rs:81-88)
SendMessage(message) == [tag |-> "SendMessage", message |-> message]
Sleep(d) == [tag |-> "Sleep", ticks |-> d]
HaltSimulation(reason) == [tag |-> "HaltSimulation", reason |-> reason]

\* MessageProcessingStatus (agent.rs:90-95)
MessageProcessingStatus == {"Initialized", "Completed", "InProgress", "Failed"}

\* The context run builds for one dispatch (lib.rs:239-245).
AgentContext(agent_id, now) ==
    [id |-> agent_id, time |-> now, commands |-> <<>>,
     message_processing_status |-> "Initialized"]

\* Mutant: a message is stamped with the tick after the one it is sent in.
send_next_tick(ctx, target, payload) ==
    [ctx EXCEPT !.commands =
        Append(@, SendMessage(Message(ctx.time + 1, ctx.id, target, payload)))]

send(ctx, target, payload) ==
    [ctx EXCEPT !.commands =
        Append(@, SendMessage(Message(ctx.time, ctx.id, target, payload)))]

send_halt_interrupt(ctx, reason) ==
    [ctx EXCEPT !.commands = Append(@, HaltSimulation(reason))]

sleep_for(ctx, d) ==
    [ctx EXCEPT !.commands = Append(@, Sleep(d))]

set_processing_status(ctx, status) ==
    [ctx EXCEPT !.message_processing_status = status]

\* ---------------------------------------------------------------- agents
\* The behaviours of agent.rs, and "User": an agent written by the caller
\* (like tests::starbucks_clerk's Clerk), whose callbacks may make any
\* sequence of context calls and report any processing status.
PeriodicProducer(name, period, target) ==
    [id |-> name, kind |-> "PeriodicProducer", period |-> period, target |-> target]
PeriodicConsumer(name, period) ==
    [id |-> name, kind |-> "PeriodicConsumer", period |-> period]
UserAgent(name) ==
    [id |-> name, kind |-> "User"]

\* The durations a user-written agent sleeps for.
SleepTicks == {0, 1, 2}
\* The names a user-written agent sends to: the roster's and one that is not.
Destinations == {agents[k].id : k \in DOMAIN agents} \cup {"nobody"}

\* One context call of a user-written callback.
UserCalls ==
    {[op |-> "send", target |-> d] : d \in Destinations}
    \cup {[op |-> "sleep_for", ticks |-> d] : d \in SleepTicks}
    \cup {[op |-> "send_halt_interrupt"]}

\* What a user-written callback does: its context calls, in order, and the
\* status it reports.  One callback makes up to two context calls, as
\* PeriodicProducer::on_tick does (agent.rs:277-280), n at most.
ScriptLengths == {0, 1, 2}
Scripts(n) == UNION {[1..k -> UserCalls] : k \in {l \in ScriptLengths : l <= n}}

\* The k-th message a user-written agent creates carries payload serial
\* base + k, so that any two of them differ.
RECURSIVE RunCalls(_, _, _)
RunCalls(ctx, script, base) ==
    IF script = <<>> THEN ctx
    ELSE LET c == script[Len(script)]
             before == RunCalls(ctx, pop_last(script), base)
         IN CASE c.op = "send" ->
                   send(before, c.target, Some(base + Len(script)))
              [] c.op = "sleep_for" -> sleep_for(before, c.ticks)
              [] c.op = "send_halt_interrupt" ->
                   send_halt_interrupt(before, "halt")

NoChoice == [script |-> <<>>, status |-> "Initialized"]

\* Agent::on_tick and its implementations (agent.rs:185, 277-280).
on_tick(agent, ctx, choice, base) ==
    CASE agent.kind = "PeriodicProducer" ->
           send(sleep_for(ctx, agent.period), agent.target, None)
      [] agent.kind = "PeriodicConsumer" -> ctx
      [] agent.kind = "User" -> RunCalls(ctx, choice.script, base)

\* Agent::on_message and its implementations (agent.rs:181, 273-275, 313-315).
on_message(agent, ctx, msg, choice, base) ==
    CASE agent.kind = "PeriodicProducer" -> ctx
      [] agent.kind = "PeriodicConsumer" -> sleep_for(ctx, agent.period)
      [] agent.kind = "User" ->
           set_processing_status(RunCalls(ctx, choice.script, base), choice.status)

\* Mutant: a Proactive agent with a queued message is passed the message.
Callback_queue_first(m, queued_msg) ==
    CASE m.tag \in {"Proactive", "Reactive"} ->
           IF queued_msg # None THEN "on_message"
           ELSE IF m.tag = "Proactive" THEN "on_tick" ELSE "none"
      [] m.tag = "AsleepUntil" -> "none"
      [] m.tag = "Dead" -> "none"

\* Mutant: a Dead agent with a message is dispatched like a Reactive one.
Callback_dead_reacts(m, queued_msg) ==
    CASE m.tag = "Proactive" -> "on_tick"
      [] m.tag \in {"Reactive", "Dead"} ->
           IF queued_msg # None THEN "on_message" ELSE "none"
      [] m.tag = "AsleepUntil" -> "none"

\* The callback run invokes for an agent in mode m whose popped message is
\* queued_msg (lib.rs:247-287).
Callback(m, queued_msg) ==
    CASE m.tag = "Proactive" -> "on_tick"
      [] m.tag = "Reactive" ->
           IF queued_msg # None THEN "on_message" ELSE "none"
      [] m.tag = "AsleepUntil" -> "none"
      [] m.tag = "Dead" -> "none"

\* What the invoked callback may do.
Choices(agent, callback, budget) ==
    IF callback = "none" \/ agent.kind # "User" THEN {NoChoice}
    ELSE {[script |-> sc, status |-> st] :
            sc \in Scripts(budget),
            st \in IF callback = "on_message" THEN MessageProcessingStatus
                   ELSE {"Initialized"}}

\* ------------------------------------------------------ Simulation::new
\* AgentInitializer { agent, options: AgentOptions } (agent.rs:143-167)
AgentInitializer(agent, initial_mode, wake_mode, initial_queue) ==
    [agent |-> agent,
     options |-> [initial_mode |-> initial_mode, wake_mode |-> wake_mode,
                  initial_queue |-> initial_queue, name |-> agent.id]]

\* periodic_producing_agent (agent.rs:257-295)
periodic_producing_agent(name, period, target) ==
    AgentInitializer(PeriodicProducer(name, period, target),
                     Proactive, Proactive, <<>>)

\* periodic_consuming_agent (agent.rs:299-322): AgentOptions::defaults_with_name,
\* whose modes are AgentMode's default, Reactive.
periodic_consuming_agent(name, period) ==
    AgentInitializer(PeriodicConsumer(name, period), Reactive, Reactive, <<>>)

\* Mutant: the first pair with an id is kept.
IndexMap_first(inits) ==
    [n \in {inits[k].agent.id : k \in DOMAIN inits} |->
        CHOOSE k \in DOMAIN inits :
            /\ inits[k].agent.id = n
            /\ \A j \in DOMAIN inits : inits[j].agent.id = n => k <= j]

\* HashMap collect of (id, index) pairs: a later pair with the same id
\* replaces an earlier one (lib.rs:113-118).
IndexMap(inits) ==
    [n \in {inits[k].agent.id : k \in DOMAIN inits} |->
        CHOOSE k \in DOMAIN inits :
            /\ inits[k].agent.id = n
            /\ \A j \in DOMAIN inits : inits[j].agent.id = n => j <= k]

\* Simulation::new (lib.rs:111-160)
new(parameters) ==
    LET inits == parameters.agent_initializers
    IN [mode |-> "Constructed",
        agent_metadata_hash_table |->
            [n \in {inits[k].agent.id : k \in DOMAIN inits} |->
                [queue_depth_metrics |-> <<>>, asleep_cycle_count |-> 0]],
        agents |-> [k \in DOMAIN inits |-> inits[k].agent],
        halt_check |-> parameters.halt_check,
        time |-> parameters.starting_time,
        enable_queue_depth_metric |-> parameters.enable_queue_depth_metrics,
        enable_agent_asleep_cycles_metric |->
            parameters.enable_agent_asleep_cycles_metric,
        agent_id_index_map |-> IndexMap(inits),
        agent_states |->
            [k \in DOMAIN inits |->
                [mode |-> inits[k].options.initial_mode,
                 wake_mode |-> inits[k].options.wake_mode,
                 queue |-> inits[k].options.initial_queue,
                 consumed |-> <<>>,
                 produced |-> <<>>]]]

\* The state after Simulation::new(parameters), before run is called.
Constructed(parameters) ==
    LET sim == new(parameters)
        n == Len(sim.agents)
    IN /\ agents = sim.agents
       /\ halt_check = sim.halt_check
       /\ time = sim.time
       /\ enable_queue_depth_metric = sim.enable_queue_depth_metric
       /\ enable_agent_asleep_cycles_metric = sim.enable_agent_asleep_cycles_metric
       /\ mode = sim.mode
       /\ agent_metadata_hash_table = sim.agent_metadata_hash_table
       /\ agent_id_index_map = sim.agent_id_index_map
       /\ agent_states = sim.agent_states
       /\ command_buffer = <<>>
       /\ i = 1
       /\ pc = "constructed"
       /\ starting_time = parameters.starting_time
       /\ ticks = 0
       /\ issued = 0
       /\ calls = [k \in 1..n |-> [fn |-> "none", msg |-> None, status |-> "Initialized"]]
       /\ asleep_set_at = [k \in 1..n |-> parameters.starting_time - 1]
       /\ last_wake = [k \in 1..n |-> None]
       /\ pending_retry = [k \in 1..n |-> None]
       /\ failed = [k \in 1..n |-> FALSE]
       /\ arrived = [k \in 1..n |-> sim.agent_states[k].queue]
       /\ sends_issued = [k \in 1..n |-> 0]
       /\ last_query = None
       /\ queries = 0

\* ------------------------------------------------------ ObjectiveScore
\* ObjectiveScore = f64 (experiment.rs:7).  A score is NaN, an infinity,
\* f64::MIN (the least finite value) or another finite value; the finite
\* values other than MIN are numbered by v.  Only the order and the class of
\* scores enter the searches.
NaN == [class |-> "nan", v |-> 0]
NegInf == [class |-> "neg_inf", v |-> 0]
MIN == [class |-> "min", v |-> 0]
Finite(n) == [class |-> "finite", v |-> n]
PosInf == [class |-> "pos_inf", v |-> 0]

\* The position of a class on the real line.
Rank(a) ==
    CASE a.class = "neg_inf" -> 0
      [] a.class = "min" -> 1
      [] a.class = "finite" -> 2
      [] a.class = "pos_inf" -> 3
      [] a.class = "nan" -> 4

\* a > b on f64: false when either side is NaN.
Gt(a, b) ==
    /\ a.class # "nan"
    /\ b.class # "nan"
    /\ \/ Rank(a) > Rank(b)
       \/ Rank(a) = Rank(b) /\ a.v > b.v

\* The state in which no search is running.
NoExperiment ==
    /\ experiment = "none"
    /\ replications_limit = 0
    /\ approx_optimal_simulation = None
    /\ high_score = MIN
    /\ replication = 0
    /\ samples = <<>>
    /\ work = [generated |-> 0, constructed |-> 0, scored |-> 0]
    /\ returned = None
    /\ current_params = None
    /\ best_params = None
    /\ current_score = NaN
    /\ best_score = NaN
    /\ iteration = 0
    /\ trail = <<>>

\* ------------------------------------------------------- halt predicates
\* The halt predicates of the repository's tests, examples and benches are
\* |s| s.time == T (lib.rs:449) and |s| s.time > T (lib.rs:497); the default
\* is |_| true (lib.rs:96).
TimeEq(T) == [kind |-> "time_eq", T |-> T]
TimeGt(T) == [kind |-> "time_gt", T |-> T]
Always == [kind |-> "always", T |-> 0]
\* A halt predicate is a fn(&Simulation) -> bool over the whole Simulation
\* (lib.rs:50-51), whose fields are public: |s| s.mode == m || s.time == T
\* reads the run mode.
ModeOrTime(m, T) == [kind |-> "mode_or_time", T |-> T, mode |-> m]

\* Mutant: time > T evaluated as time >= T.
HaltCheck_ge ==
    CASE halt_check.kind = "time_eq" -> time = halt_check.T
      [] halt_check.kind = "time_gt" -> time >= halt_check.T
      [] halt_check.kind = "always" -> TRUE
      [] halt_check.kind = "mode_or_time" ->
           mode = halt_check.mode \/ time = halt_check.T

HaltCheck ==
    CASE halt_check.kind = "time_eq" -> time = halt_check.T
      [] halt_check.kind = "time_gt" -> time > halt_check.T
      [] halt_check.kind = "always" -> TRUE
      [] halt_check.kind = "mode_or_time" ->
           mode = halt_check.mode \/ time = halt_check.T

\* ----------------------------------------------------------- parameters
\* Messages a caller puts in an agent's initial queue; their payload
\* serials are negative, those of messages sent during the run positive.
InitialQueue(name, n, base) ==
    [k \in 1..n |-> Message(0, "setup", name, Some(0 - (base + k)))]

\* The starting options tried for a user-written agent: the modes of
\* AgentMode, a non-empty initial queue for the modes that do not act at
\* once.
UserOptions(name, base) ==
    { AgentInitializer(UserAgent(name), Proactive, Proactive, <<>>),
      AgentInitializer(UserAgent(name), Reactive, Reactive,
                       InitialQueue(name, 2, base)),
      AgentInitializer(UserAgent(name), AsleepUntil(2), Reactive,
                       InitialQueue(name, 1, base)),
      AgentInitializer(UserAgent(name), Dead, Dead,
                       InitialQueue(name, 1, base)),
      AgentInitializer(UserAgent(name), AsleepUntil(1), Dead,
                       InitialQueue(name, 1, base)) }

\* The agent of agent.rs a user-written agent shares the roster with: a
\* producer that sends to it, or a consumer.
LibraryAgents(peer) ==
    { periodic_producing_agent("producer", 1, peer),
      periodic_consuming_agent("consumer", 1) }

\* The rosters: a user-written agent before or after a library agent.
UserRosters ==
    UNION {{<<u, l>>, <<l, u>>} :
              u \in UserOptions("user", 0), l \in LibraryAgents("user")}

StartingTimes == {0, 1, 2}

\* Time-based halt predicates under which a run from starting time s ends.
HaltChecks(s, maxT) ==
    {TimeEq(T) : T \in s..maxT} \cup {TimeGt(T) : T \in 0..(maxT - 2)}
    \cup {Always}

\* The parameters of the runs of user-written agents.
UserParametersFrom(s) ==
    {[agent_initializers |-> r, halt_check |-> h, starting_time |-> s,
      enable_queue_depth_metrics |-> FALSE,
      enable_agent_asleep_cycles_metric |-> FALSE] :
        r \in UserRosters, h \in HaltChecks(s, MaxTime)}

UserParameters == UNION {UserParametersFrom(s) : s \in StartingTimes}

PeriodicParameters ==
    {[agent_initializers |->
          <<periodic_producing_agent("producer", p, "consumer"),
            periodic_consuming_agent("consumer", c)>>,
      halt_check |-> TimeEq(T), starting_time |-> 0,
      enable_queue_depth_metrics |-> FALSE,
      enable_agent_asleep_cycles_metric |-> FALSE] :
        p \in 1..2, c \in 1..2, T \in 1..MaxPeriodicTime}

Init ==
    /\ \E parameters \in UserParameters : Constructed(parameters)
    /\ NoExperiment

InitPeriodic ==
    /\ \E parameters \in PeriodicParameters : Constructed(parameters)
    /\ NoExperiment

\* ------------------------------------------------------ Simulation::run
N == Len(agents)

\* Mutant: the wake check compares with > instead of >=.
wakeup_late(states, now) ==
    [k \in DOMAIN states |->
        IF IsAsleep(states[k].mode) /\ now > states[k].mode.until
        THEN [states[k] EXCEPT !.mode = states[k].wake_mode]
        ELSE states[k]]

\* Mutant: a woken agent becomes Proactive whatever its wake mode.
wakeup_proactive(states, now) ==
    [k \in DOMAIN states |->
        IF IsAsleep(states[k].mode) /\ now >= states[k].mode.until
        THEN [states[k] EXCEPT !.mode = Proactive]
        ELSE states[k]]

\* Mutant: an agent is woken one tick before its wake tick.
wakeup_eager(states, now) ==
    [k \in DOMAIN states |->
        IF IsAsleep(states[k].mode) /\ now + 1 >= states[k].mode.until
        THEN [states[k] EXCEPT !.mode = states[k].wake_mode]
        ELSE states[k]]

\* wakeup_agents_scheduled_to_wakeup_now (lib.rs:418-428)
wakeup_agents_scheduled_to_wakeup_now(states, now) ==
    [k \in DOMAIN states |->
        IF IsAsleep(states[k].mode) /\ now >= states[k].mode.until
        THEN [states[k] EXCEPT !.mode = states[k].wake_mode]
        ELSE states[k]]

\* Mutant: only Failed requeues; InProgress is archived as consumed.
ResolveStatus_inprogress(states, agent_handle, status, msg, now) ==
    IF status = "Failed"
    THEN [states EXCEPT ![agent_handle].queue = push_front(@, msg)]
    ELSE [states EXCEPT ![agent_handle].consumed =
             Append(@, [msg EXCEPT !.completed_time = Some(now)])]

\* Mutant: a completed message takes the next queued message with it.
ResolveStatus_batch(states, agent_handle, status, msg, now) ==
    IF status \in {"Failed", "InProgress"}
    THEN [states EXCEPT ![agent_handle].queue = push_front(@, msg)]
    ELSE [states EXCEPT
            ![agent_handle].consumed =
                Append(@, [msg EXCEPT !.completed_time = Some(now)])
                \o (IF states[agent_handle].queue = <<>> THEN <<>>
                    ELSE <<[Head(states[agent_handle].queue)
                              EXCEPT !.completed_time = Some(now)]>>),
            ![agent_handle].queue = pop_front(@)]

\* The match on ctx.message_processing_status after on_message
\* (lib.rs:253-275).
ResolveStatus(states, agent_handle, status, msg, now) ==
    IF status \in {"Failed", "InProgress"}
    THEN [states EXCEPT ![agent_handle].queue = push_front(@, msg)]
    ELSE [states EXCEPT ![agent_handle].consumed =
             Append(@, [msg EXCEPT !.completed_time = Some(now)])]

\* The queue of the dispatched agent after queue.pop_front() (lib.rs:221-226).
PopQueue(states, agent_handle) ==
    [states EXCEPT ![agent_handle].queue = pop_front(@)]

\* The commands of one dispatch, tagged with the agent's handle
\* (lib.rs:289-294).
Tagged(commands, agent_handle) ==
    [k \in 1..Len(commands) |-> [ty |-> commands[k], agent_handle |-> agent_handle]]

\* What reaches the shared command buffer during the dispatch phase
\* (lib.rs:289: command_buffer.extend).
Buffered(buffer, commands, agent_handle) ==
    buffer \o Tagged(commands, agent_handle)

\* Mutant: the queue depth of a sleeping agent is not sampled.
RecordMetrics_awake(table, agent_id, depth, m) ==
    LET sampled ==
            IF enable_queue_depth_metric /\ ~IsAsleep(m)
            THEN [table EXCEPT ![agent_id].queue_depth_metrics = Append(@, depth)]
            ELSE table
    IN IF IsAsleep(m) /\ enable_agent_asleep_cycles_metric
       THEN [sampled EXCEPT ![agent_id].asleep_cycle_count = @ + 1]
       ELSE sampled

\* Mutant: a Dead agent's dispatch counts as an asleep cycle too.
RecordMetrics_dead(table, agent_id, depth, m) ==
    LET sampled ==
            IF enable_queue_depth_metric
            THEN [table EXCEPT ![agent_id].queue_depth_metrics = Append(@, depth)]
            ELSE table
    IN IF (IsAsleep(m) \/ m.tag = "Dead") /\ enable_agent_asleep_cycles_metric
       THEN [sampled EXCEPT ![agent_id].asleep_cycle_count = @ + 1]
       ELSE sampled

\* The metrics one dispatch records (lib.rs:229-235, 278-285).
RecordMetrics(table, agent_id, depth, m) ==
    LET sampled ==
            IF enable_queue_depth_metric
            THEN [table EXCEPT ![agent_id].queue_depth_metrics = Append(@, depth)]
            ELSE table
    IN IF IsAsleep(m) /\ enable_agent_asleep_cycles_metric
       THEN [sampled EXCEPT ![agent_id].asleep_cycle_count = @ + 1]
       ELSE sampled

\* Mutant: Sleep counts from the next tick.
ApplyCommand_sleep_late(states, command, now) ==
    CASE command.ty.tag = "SendMessage" ->
           LET message == command.ty.message
               logged == [states EXCEPT ![command.agent_handle].produced =
                             Append(@, message)]
           IN IF message.destination \in DOMAIN agent_id_index_map
              THEN [logged EXCEPT
                      ![agent_id_index_map[message.destination]].queue =
                          push_back(@, message)]
              ELSE logged
      [] command.ty.tag = "HaltSimulation" -> states
      [] command.ty.tag = "Sleep" ->
           [states EXCEPT ![command.agent_handle].mode =
               AsleepUntil(now + 1 + command.ty.ticks)]

\* Mutant: a delivered message wakes a sleeping destination.
ApplyCommand_wake_on_send(states, command, now) ==
    CASE command.ty.tag = "SendMessage" ->
           LET message == command.ty.message
               logged == [states EXCEPT ![command.agent_handle].produced =
                             Append(@, message)]
           IN IF message.destination \in DOMAIN agent_id_index_map
              THEN LET d == agent_id_index_map[message.destination]
                   IN [logged EXCEPT
                         ![d].queue = push_back(@, message),
                         ![d].mode = IF IsAsleep(@) THEN logged[d].wake_mode ELSE @]
              ELSE logged
      [] command.ty.tag = "HaltSimulation" -> states
      [] command.ty.tag = "Sleep" ->
           [states EXCEPT ![command.agent_handle].mode =
               AsleepUntil(now + command.ty.ticks)]

\* Mutant: the produced log keeps the newest message first.
ApplyCommand_produced_front(states, command, now) ==
    CASE command.ty.tag = "SendMessage" ->
           LET message == command.ty.message
               logged == [states EXCEPT ![command.agent_handle].produced =
                             <<message>> \o @]
           IN IF message.destination \in DOMAIN agent_id_index_map
              THEN [logged EXCEPT
                      ![agent_id_index_map[message.destination]].queue =
                          push_back(@, message)]
              ELSE logged
      [] command.ty.tag = "HaltSimulation" -> states
      [] command.ty.tag = "Sleep" ->
           [states EXCEPT ![command.agent_handle].mode =
               AsleepUntil(now + command.ty.ticks)]

\* Mutant: a message to an unknown destination is not logged as produced.
ApplyCommand_drop(states, command, now) ==
    CASE command.ty.tag = "SendMessage" ->
           LET message == command.ty.message
           IN IF message.destination \in DOMAIN agent_id_index_map
              THEN [states EXCEPT
                      ![agent_id_index_map[message.destination]].queue =
                          push_back(@, message),
                      ![command.agent_handle].produced = Append(@, message)]
              ELSE states
      [] command.ty.tag = "HaltSimulation" -> states
      [] command.ty.tag = "Sleep" ->
           [states EXCEPT ![command.agent_handle].mode =
               AsleepUntil(now + command.ty.ticks)]

\* Mutant: a message addressed to its sender is logged but not enqueued.
ApplyCommand_self_skip(states, command, now) ==
    CASE command.ty.tag = "SendMessage" ->
           LET message == command.ty.message
               routed ==
                   IF /\ message.destination \in DOMAIN agent_id_index_map
                      /\ agent_id_index_map[message.destination]
                             # command.agent_handle
                   THEN [states EXCEPT
                           ![agent_id_index_map[message.destination]].queue =
                               push_back(@, message)]
                   ELSE states
           IN [routed EXCEPT ![command.agent_handle].produced = Append(@, message)]
      [] command.ty.tag = "HaltSimulation" -> states
      [] command.ty.tag = "Sleep" ->
           [states EXCEPT ![command.agent_handle].mode =
               AsleepUntil(now + command.ty.ticks)]

\* One command of process_command_buffer's loop applied to the agent
\* states (lib.rs:390-413).
ApplyCommand(states, command, now) ==
    CASE command.ty.tag = "SendMessage" ->
           LET message == command.ty.message
               routed ==
                   IF message.destination \in DOMAIN agent_id_index_map
                   THEN [states EXCEPT
                           ![agent_id_index_map[message.destination]].queue =
                               push_back(@, message)]
                   ELSE states
           IN [routed EXCEPT ![command.agent_handle].produced = Append(@, message)]
      [] command.ty.tag = "HaltSimulation" -> states
      [] command.ty.tag = "Sleep" ->
           [states EXCEPT ![command.agent_handle].mode =
               AsleepUntil(now + command.ty.ticks)]

\* Mutant: the context applies each command as soon as it is issued.
RECURSIVE AfterDispatch_immediate(_, _, _, _)
AfterDispatch_immediate(states, commands, agent_handle, now) ==
    IF commands = <<>> THEN states
    ELSE ApplyCommand(
             AfterDispatch_immediate(states, pop_last(commands), agent_handle, now),
             [ty |-> last(commands), agent_handle |-> agent_handle], now)

\* The agent states a dispatch leaves, given the commands the agent issued:
\* the context only pushes them onto the local agent_commands, and holds the
\* agent's state by shared reference, so the states are those after the
\* status resolution (lib.rs:237-245, agent.rs:116-136).
AfterDispatch(states, commands, agent_handle, now) == states

\* Mutant: every command other than HaltSimulation marks the run Running.
ModeAfter_reset(m, command) ==
    IF command.ty.tag = "HaltSimulation" THEN "Completed" ELSE "Running"

\* The simulation mode after one command (lib.rs:404-407).
ModeAfter(m, command) ==
    IF command.ty.tag = "HaltSimulation" THEN "Completed" ELSE m

\* Mutant: the drain loop stops with one command left in the buffer.
Drained_early(buffer) == Len(buffer) <= 1

\* Mutant: the drain loop also stops once the halt predicate is true.
Drained_halted(buffer) == buffer = <<>> \/ HaltCheck

\* Whether the drain loop ends: Vec::pop returns None (lib.rs:389).
Drained(buffer) == buffer = <<>>

\* Mutant: the drain loop takes the oldest command first.
NextCommand_fifo(buffer) == Head(buffer)

\* The command the drain loop takes next: Vec::pop (lib.rs:389).
NextCommand(buffer) == last(buffer)

\* Mutant: the clock advances by two.
NextTime_skip(now) == now + 2

\* self.time += 1 (lib.rs:301).
NextTime(now) == now + 1

\* Whether the while loop of run goes round again (lib.rs:213).
LoopContinues == ~HaltCheck

\* run's first statements (lib.rs:210-211).
RunBegin ==
    /\ pc = "constructed"
    /\ mode' = "Running"
    /\ command_buffer' = <<>>
    /\ pc' = "check"
    /\ UNCHANGED <<search, last_query, queries, last_wake, agents, halt_check, time, enable_queue_depth_metric,
                   enable_agent_asleep_cycles_metric, agent_metadata_hash_table,
                   agent_id_index_map, agent_states, i, starting_time, ticks,
                   issued, calls, asleep_set_at, pending_retry, failed, arrived,
                   sends_issued>>

\* The halt predicate is false: a tick starts
\* with the wake check (lib.rs:213-215).
RunTick ==
    /\ pc = "check"
    /\ LoopContinues
    /\ agent_states' = wakeup_agents_scheduled_to_wakeup_now(agent_states, time)
    /\ asleep_set_at' =
           [k \in DOMAIN asleep_set_at |->
               IF agent_states'[k].mode # agent_states[k].mode
                  /\ IsAsleep(agent_states'[k].mode)
               THEN time ELSE asleep_set_at[k]]
    /\ last_wake' =
           [k \in DOMAIN last_wake |->
               IF IsAsleep(agent_states[k].mode)
                  /\ agent_states'[k].mode # agent_states[k].mode
               THEN Some([at |-> time, until |-> agent_states[k].mode.until,
                          set_at |-> asleep_set_at[k],
                          mode |-> agent_states'[k].mode])
               ELSE last_wake[k]]
    /\ calls' = [k \in DOMAIN calls |-> [fn |-> "none", msg |-> None, status |-> "Initialized"]]
    /\ ticks' = ticks + 1
    /\ i' = 1
    /\ pc' = IF N = 0 THEN "drain" ELSE "dispatch"
    /\ UNCHANGED <<search, last_query, queries,
                   agents, halt_check, time, enable_queue_depth_metric,
                   enable_agent_asleep_cycles_metric, mode,
                   agent_metadata_hash_table, agent_id_index_map, command_buffer,
                   starting_time, issued, pending_retry, failed, arrived,
                   sends_issued>>

\* The halt predicate is true: run leaves the loop and returns (lib.rs:304-306).
RunReturn ==
    /\ pc = "check"
    /\ ~LoopContinues
    /\ mode' = "Completed"
    /\ pc' = "done"
    /\ UNCHANGED <<search, last_query, queries, last_wake, agents, halt_check, time, enable_queue_depth_metric,
                   enable_agent_asleep_cycles_metric, agent_metadata_hash_table,
                   agent_id_index_map, agent_states, command_buffer, i,
                   starting_time, ticks, issued, calls, asleep_set_at,
                   pending_retry, failed, arrived, sends_issued>>

\* One iteration of the for loop over the roster (lib.rs:217-295).
Dispatch ==
    /\ pc = "dispatch"
    /\ LET agent == agents[i]
           agent_id == agent.id
           agent_handle == agent_id_index_map[agent_id]
           queued_msg == front(agent_states[agent_handle].queue)
           popped == PopQueue(agent_states, agent_handle)
           agent_state == popped[agent_handle]
           callback == Callback(agent_state.mode, queued_msg)
           user == IF agent.kind = "User" THEN 1 ELSE 0
       IN \E choice \in Choices(agent, callback, MaxIssued - issued) :
            LET ctx0 == AgentContext(agent_id, time)
                ctx == CASE callback = "on_tick" ->
                              on_tick(agent, ctx0, choice, issued)
                         [] callback = "on_message" ->
                              on_message(agent, ctx0, queued_msg[1], choice, issued)
                         [] callback = "none" -> ctx0
                status == ctx.message_processing_status
                resolved ==
                    IF callback = "on_message"
                    THEN ResolveStatus(popped, agent_handle, status,
                                       queued_msg[1], time)
                    ELSE popped
                requeued == callback = "on_message" /\ status \in {"Failed", "InProgress"}
            IN /\ agent_states' =
                      AfterDispatch(resolved, ctx.commands, agent_handle, time)
               /\ agent_metadata_hash_table' =
                      RecordMetrics(agent_metadata_hash_table, agent_id,
                                    Len(agent_state.queue), agent_state.mode)
               /\ command_buffer' =
                      Buffered(command_buffer, ctx.commands, agent_handle)
               /\ issued' = issued + user * Len(ctx.commands)
               /\ calls' = [calls EXCEPT ![i] =
                      [fn |-> callback,
                       msg |-> IF callback = "on_message" THEN queued_msg ELSE None,
                       status |-> status]]
               /\ pending_retry' =
                      IF callback = "on_message"
                      THEN [pending_retry EXCEPT ![agent_handle] =
                               IF requeued THEN queued_msg ELSE None]
                      ELSE pending_retry
               /\ failed' = [failed EXCEPT ![agent_handle] = @ \/ requeued]
               /\ sends_issued' = [sends_issued EXCEPT ![agent_handle] =
                      @ + Cardinality({k \in 1..Len(ctx.commands) :
                                          ctx.commands[k].tag = "SendMessage"})]
    /\ i' = IF i = N THEN i ELSE i + 1
    /\ pc' = IF i = N THEN "drain" ELSE "dispatch"
    /\ UNCHANGED <<search, last_query, queries, last_wake, agents, halt_check, time, enable_queue_depth_metric,
                   enable_agent_asleep_cycles_metric, mode, agent_id_index_map,
                   starting_time, ticks, asleep_set_at, arrived>>

\* One iteration of process_command_buffer's loop (lib.rs:388-415).
ProcessCommand ==
    /\ pc = "drain"
    /\ ~Drained(command_buffer)
    /\ LET command == NextCommand(command_buffer)
           delivered ==
               command.ty.tag = "SendMessage"
               /\ command.ty.message.destination \in DOMAIN agent_id_index_map
       IN /\ command_buffer' = pop_last(command_buffer)
          /\ agent_states' = ApplyCommand(agent_states, command, time)
          /\ mode' = ModeAfter(mode, command)
          /\ arrived' =
                 IF delivered
                 THEN [arrived EXCEPT
                         ![agent_id_index_map[command.ty.message.destination]] =
                             Append(@, command.ty.message)]
                 ELSE arrived
          /\ asleep_set_at' =
                 IF command.ty.tag = "Sleep"
                 THEN [asleep_set_at EXCEPT ![command.agent_handle] = time]
                 ELSE asleep_set_at
    /\ UNCHANGED <<search, last_query, queries, last_wake, agents, halt_check, time, enable_queue_depth_metric,
                   enable_agent_asleep_cycles_metric, agent_metadata_hash_table,
                   agent_id_index_map, i, pc, starting_time, ticks, issued, calls,
                   pending_retry, failed, sends_issued>>

\* The buffer is drained: self.time += 1 (lib.rs:300-301).
AdvanceTime ==
    /\ pc = "drain"
    /\ Drained(command_buffer)
    /\ time' = NextTime(time)
    /\ pc' = "check"
    /\ UNCHANGED <<search, last_query, queries, last_wake, agents, halt_check, enable_queue_depth_metric,
                   enable_agent_asleep_cycles_metric, mode,
                   agent_metadata_hash_table, agent_id_index_map, agent_states,
                   command_buffer, i, starting_time, ticks, issued, calls,
                   asleep_set_at, pending_retry, failed, arrived, sends_issued>>

Next ==
    \/ RunBegin
    \/ RunTick
    \/ RunReturn
    \/ Dispatch
    \/ ProcessCommand
    \/ AdvanceTime

Spec == Init /\ [][Next]_vars

SpecPeriodic == InitPeriodic /\ [][Next]_vars

\* --------------------------------------------------------------- queries
\* The struct Simulation: what a query with &self may read (lib.rs:46-73).
simulation ==
    <<agents, halt_check, time, enable_queue_depth_metric,
      enable_agent_asleep_cycles_metric, mode, agent_metadata_hash_table,
      agent_id_index_map, agent_states>>

\* self.agents.iter().find(|a| a.id() == name) (lib.rs:164, 170)
find(name) ==
    IF \E k \in DOMAIN agents : agents[k].id = name
    THEN Some(agents[CHOOSE k \in DOMAIN agents :
                  /\ agents[k].id = name
                  /\ \A j \in DOMAIN agents : agents[j].id = name => k <= j])
    ELSE None

\* agent_state (lib.rs:174-182): None when the id is not in the index map.
agent_state(id) ==
    IF id \in DOMAIN agent_id_index_map
    THEN Some(agent_states[agent_id_index_map[id]])
    ELSE None

\* agent_state_mut (lib.rs:184-189), where it returns.
agent_state_mut(id) ==
    Some(agent_states[agent_id_index_map[id]])

\* consumed_for_agent (lib.rs:163-166)
consumed_for_agent(name) ==
    IF find(name) = None THEN None
    ELSE IF agent_state(find(name)[1].id) = None THEN None
    ELSE Some(agent_state(find(name)[1].id)[1].consumed)

\* produced_for_agent (lib.rs:169-172)
produced_for_agent(name) ==
    IF find(name) = None THEN None
    ELSE Some(agent_state(find(name)[1].id)[1].produced)

\* queue_depth_metrics (lib.rs:192-200)
queue_depth_metrics(id) ==
    IF id \in DOMAIN agent_metadata_hash_table
    THEN Some(agent_metadata_hash_table[id].queue_depth_metrics)
    ELSE None

\* asleep_cycle_count (lib.rs:203-206)
asleep_cycle_count(id) ==
    IF id \in DOMAIN agent_metadata_hash_table
    THEN Some(agent_metadata_hash_table[id].asleep_cycle_count)
    ELSE None

\* The sum of completed_time - queued_time over a consumed log
\* (lib.rs:317-320).
RECURSIVE sum_of_times(_)
sum_of_times(consumed) ==
    IF consumed = <<>> THEN 0
    ELSE sum_of_times(Tail(consumed))
         + (Head(consumed).completed_time[1] - Head(consumed).queued_time)

\* Mutant: the mean is rounded up.
calc_avg_wait_statistics_ceil ==
    [n \in {agents[k].id : k \in {j \in DOMAIN agents :
                                     agent_state(agents[j].id)[1].consumed # <<>>}} |->
        (sum_of_times(agent_state(n)[1].consumed)
            + Len(agent_state(n)[1].consumed) - 1)
            \div Len(agent_state(n)[1].consumed)]

\* calc_avg_wait_statistics (lib.rs:310-329): integer division, for the
\* agents whose consumed log is not empty.
calc_avg_wait_statistics ==
    [n \in {agents[k].id : k \in {j \in DOMAIN agents :
                                     agent_state(agents[j].id)[1].consumed # <<>>}} |->
        sum_of_times(agent_state(n)[1].consumed)
            \div Len(agent_state(n)[1].consumed)]

\* calc_queue_len_statistics (lib.rs:333-344)
calc_queue_len_statistics ==
    [n \in {agents[k].id : k \in DOMAIN agents} |-> Len(agent_state(n)[1].queue)]

\* calc_consumed_len_statistics (lib.rs:347-358)
calc_consumed_len_statistics ==
    [n \in {agents[k].id : k \in DOMAIN agents} |-> Len(agent_state(n)[1].consumed)]

\* calc_produced_len_statistics (lib.rs:361-372)
calc_produced_len_statistics ==
    [n \in {agents[k].id : k \in DOMAIN agents} |-> Len(agent_state(n)[1].produced)]

\* The names a caller asks about: the roster's and one that is not in it.
QueryNames == {agents[k].id : k \in DOMAIN agents} \cup {"nobody"}

\* The calls a caller can make on a Simulation after run.
Queries ==
    {[fn |-> f, id |-> n] :
        f \in {"consumed_for_agent", "produced_for_agent", "agent_state",
               "agent_state_mut", "queue_depth_metrics", "asleep_cycle_count"},
        n \in QueryNames}
    \cup {[fn |-> f, id |-> ""] :
            f \in {"calc_avg_wait_statistics", "calc_queue_len_statistics",
                   "calc_consumed_len_statistics", "calc_produced_len_statistics"}}

\* Whether the call q panics: Option::unwrap on None, in agent_state_mut
\* for an id that is not in the index map (lib.rs:187) and in
\* produced_for_agent for a roster name without a state (lib.rs:171).
Faults(q) ==
    \/ q.fn = "agent_state_mut" /\ q.id \notin DOMAIN agent_id_index_map
    \/ /\ q.fn = "produced_for_agent"
       /\ find(q.id) # None
       /\ agent_state(find(q.id)[1].id) = None

\* What the call q returns.
Answer(q) ==
    CASE q.fn = "consumed_for_agent" -> consumed_for_agent(q.id)
      [] q.fn = "produced_for_agent" -> produced_for_agent(q.id)
      [] q.fn = "agent_state" -> agent_state(q.id)
      [] q.fn = "agent_state_mut" -> agent_state_mut(q.id)
      [] q.fn = "queue_depth_metrics" -> queue_depth_metrics(q.id)
      [] q.fn = "asleep_cycle_count" -> asleep_cycle_count(q.id)
      [] q.fn = "calc_avg_wait_statistics" -> calc_avg_wait_statistics
      [] q.fn = "calc_queue_len_statistics" -> calc_queue_len_statistics
      [] q.fn = "calc_consumed_len_statistics" -> calc_consumed_len_statistics
      [] q.fn = "calc_produced_len_statistics" -> calc_produced_len_statistics

\* Mutant: consumed_for_agent takes the log out of the state instead of
\* cloning it.
AfterQuery_take(states, q) ==
    IF q.fn = "consumed_for_agent" /\ q.id \in DOMAIN agent_id_index_map
    THEN [states EXCEPT ![agent_id_index_map[q.id]].consumed = <<>>]
    ELSE states

\* The agent states a query leaves: every query reads through a shared
\* reference and clones what it returns; agent_state_mut writes nothing
\* (lib.rs:163-206, 310-372).
AfterQuery(states, q) == states

\* One call of a query on a Simulation whose run has returned.  A panic
\* ends the calling program.
Query ==
    /\ pc = "done"
    /\ queries < MaxQueries
    /\ \E q \in Queries :
          /\ last_query' =
                 Some([query |-> q,
                       outcome |-> IF Faults(q) THEN "panicked" ELSE "returned",
                       result |-> IF Faults(q) THEN None ELSE Answer(q)])
          /\ agent_states' = AfterQuery(agent_states, q)
          /\ pc' = IF Faults(q) THEN "panicked" ELSE pc
    /\ queries' = queries + 1
    /\ UNCHANGED <<search, last_wake, agents, halt_check, time,
                   enable_queue_depth_metric,
                   enable_agent_asleep_cycles_metric, mode,
                   agent_metadata_hash_table, agent_id_index_map,
                   command_buffer, i, starting_time, ticks, issued, calls,
                   asleep_set_at, pending_retry, failed, arrived, sends_issued>>

\* The rosters of the runs whose results are queried: a user-written agent
\* followed by a library agent.
QueryRosters ==
    {<<u, l>> : u \in UserOptions("user", 0), l \in LibraryAgents("user")}

\* The runs whose results are queried: metrics recorded, started at 0.
QueryParameters ==
    {[agent_initializers |-> r, halt_check |-> TimeEq(T), starting_time |-> 0,
      enable_queue_depth_metrics |-> TRUE,
      enable_agent_asleep_cycles_metric |-> TRUE] :
        r \in QueryRosters, T \in 0..(MaxTime - 1)}

InitQuery ==
    /\ \E parameters \in QueryParameters : Constructed(parameters)
    /\ NoExperiment

NextQuery ==
    \/ Next
    \/ Query

SpecQuery == InitQuery /\ [][NextQuery]_vars

\* The runs whose metrics are examined: each metric switched on or off.
MetricsParameters ==
    {[agent_initializers |-> r, halt_check |-> TimeEq(T), starting_time |-> 0,
      enable_queue_depth_metrics |-> depth,
      enable_agent_asleep_cycles_metric |-> asleep] :
        r \in UserRosters, T \in 0..(MaxTime - 1),
        depth \in BOOLEAN, asleep \in BOOLEAN}

InitMetrics ==
    /\ \E parameters \in MetricsParameters : Constructed(parameters)
    /\ NoExperiment

SpecMetrics == InitMetrics /\ [][Next]_vars

\* Starting options with every pairing of an initial mode and a wake mode.
ModeOptions(name) ==
    {AgentInitializer(UserAgent(name), initial, wake, InitialQueue(name, 1, 0)) :
        initial \in {Proactive, Reactive, Dead, AsleepUntil(1)},
        wake \in {Proactive, Reactive, Dead}}

\* The runs in which the modes are examined.
ModeParameters ==
    {[agent_initializers |-> <<u, l>>, halt_check |-> TimeEq(T),
      starting_time |-> 0,
      enable_queue_depth_metrics |-> FALSE,
      enable_agent_asleep_cycles_metric |-> FALSE] :
        u \in ModeOptions("user"), l \in LibraryAgents("user"),
        T \in 0..(MaxTime - 1)}

InitModes ==
    /\ \E parameters \in ModeParameters : Constructed(parameters)
    /\ NoExperiment

SpecModes == InitModes /\ [][Next]_vars

\* The runs in which sleeps are followed to the wake: long enough for the
\* longest sleep of the first tick to end, the asleep-cycle metric on or off.
SleepParameters ==
    {[agent_initializers |-> r, halt_check |-> TimeEq(MaxTime),
      starting_time |-> 0,
      enable_queue_depth_metrics |-> FALSE,
      enable_agent_asleep_cycles_metric |-> asleep] :
        r \in QueryRosters, asleep \in BOOLEAN}

InitSleep ==
    /\ \E parameters \in SleepParameters : Constructed(parameters)
    /\ NoExperiment

SpecSleep == InitSleep /\ [][Next]_vars

\* SimulationParameters::default() (lib.rs:92-102).
Default ==
    [agent_initializers |-> <<>>, halt_check |-> Always, starting_time |-> 0,
     enable_queue_depth_metrics |-> FALSE,
     enable_agent_asleep_cycles_metric |-> FALSE]

\* The runs in which the halt predicate is examined: the default
\* parameters, and rosters run under predicates over the time, over
\* nothing, and over the run mode and the time.
HaltParameters ==
    {Default}
    \cup {[agent_initializers |-> r, halt_check |-> h, starting_time |-> 0,
           enable_queue_depth_metrics |-> FALSE,
           enable_agent_asleep_cycles_metric |-> FALSE] :
             r \in QueryRosters,
             h \in {TimeEq(T) : T \in 0..(MaxTime - 1)}
                   \cup {Always}
                   \cup {ModeOrTime(m, MaxTime - 1) : m \in {"Running", "Completed"}}}

InitHalt ==
    /\ \E parameters \in HaltParameters : Constructed(parameters)
    /\ NoExperiment

SpecHalt == InitHalt /\ [][Next]_vars

\* Rosters whose two entries carry the same name: two user-written
\* agents, or a user-written agent and a producer that sends to the name.
DuplicateRosters ==
    {<<u, v>> : u \in UserOptions("user", 0), v \in UserOptions("user", 2)}
    \cup UNION {{<<u, periodic_producing_agent("user", 1, "user")>>,
                 <<periodic_producing_agent("user", 1, "user"), u>>} :
                    u \in UserOptions("user", 0)}

DuplicateParameters ==
    {[agent_initializers |-> r, halt_check |-> TimeEq(T), starting_time |-> 0,
      enable_queue_depth_metrics |-> TRUE,
      enable_agent_asleep_cycles_metric |-> TRUE] :
        r \in DuplicateRosters, T \in 0..(MaxTime - 1)}

InitDuplicates ==
    /\ \E parameters \in DuplicateParameters : Constructed(parameters)
    /\ NoExperiment

SpecDuplicates == InitDuplicates /\ [][Next]_vars

\* ========================================================= experiment.rs
\* The scores an objective function returns.
Scores == {NaN, NegInf, MIN, Finite(0), Finite(1)}

\* The temperatures a cooling schedule returns: negative, +0.0, positive,
\* +inf.
Fluxes == {Finite(0 - 1), Finite(0), Finite(1), PosInf}

\* Simulation::new(generator()), run and objective_function for the j-th
\* sample (experiment.rs:30-33): the run, identified by j, and its score.
Sampled(j, score) == [run |-> j, score |-> score]

\* Mutant: a tie replaces the retained Simulation.
Improves_ge(score, high) == Gt(score, high) \/ score = high

\* score > high_score (experiment.rs:34)
Improves(score, high) == Gt(score, high)

\* Mutant: the search stops as soon as some run scored above 0.
MonteCarloContinues_early(done, limit, high) ==
    done < limit /\ ~Gt(high, Finite(0))

\* for _ in 0..replications_limit (experiment.rs:29)
MonteCarloContinues(done, limit, high) == done < limit

\* The kernel state while a search is running: each sampled Simulation is
\* constructed, run and scored inside one step of the search.
KernelIdle ==
    Constructed([agent_initializers |->
                     <<periodic_producing_agent("producer", 1, "consumer"),
                       periodic_consuming_agent("consumer", 1)>>,
                 halt_check |-> Always, starting_time |-> 0,
                 enable_queue_depth_metrics |-> FALSE,
                 enable_agent_asleep_cycles_metric |-> FALSE])

\* monte_carlo_experiment is called (experiment.rs:21-27).
InitMonteCarlo ==
    /\ KernelIdle
    /\ experiment = "monte_carlo"
    /\ replications_limit \in 0..MaxReplications
    /\ approx_optimal_simulation = None
    /\ high_score = MIN
    /\ replication = 0
    /\ samples = <<>>
    /\ work = [generated |-> 0, constructed |-> 0, scored |-> 0]
    /\ returned = None
    /\ current_params = None
    /\ best_params = None
    /\ current_score = NaN
    /\ best_score = NaN
    /\ iteration = 0
    /\ trail = <<>>

\* One iteration of the for loop (experiment.rs:29-38).
MonteCarloSample ==
    /\ experiment = "monte_carlo"
    /\ MonteCarloContinues(replication, replications_limit, high_score)
    /\ \E score \in Scores :
          LET sample == Sampled(replication + 1, score)
          IN /\ samples' = Append(samples, score)
             /\ IF Improves(score, high_score)
                THEN /\ approx_optimal_simulation' = Some(sample)
                     /\ high_score' = score
                ELSE UNCHANGED <<approx_optimal_simulation, high_score>>
    /\ work' = [generated |-> work.generated + 1,
                constructed |-> work.constructed + 1,
                scored |-> work.scored + 1]
    /\ replication' = replication + 1
    /\ UNCHANGED <<kernel, experiment, replications_limit, returned,
                   current_params, best_params, current_score, best_score,
                   iteration, trail>>

\* The loop is over: approx_optimal_simulation is returned (experiment.rs:40).
MonteCarloReturn ==
    /\ experiment = "monte_carlo"
    /\ ~MonteCarloContinues(replication, replications_limit, high_score)
    /\ experiment' = "monte_carlo_returned"
    /\ returned' = approx_optimal_simulation
    /\ UNCHANGED <<kernel, replications_limit, approx_optimal_simulation,
                   high_score, replication, samples, work, current_params,
                   best_params, current_score, best_score, iteration, trail>>

NextMonteCarlo ==
    \/ MonteCarloSample
    \/ MonteCarloReturn

SpecMonteCarlo == InitMonteCarlo /\ [][NextMonteCarlo]_vars

\* ------------------------------------------- simulated_annealing_experiment
\* A parameter set, identified by the call that made it: 0 for
\* initial_parameters_generator(), n for the n-th perturb_function call.
Params(n, parent) == [id |-> n, from |-> parent]

\* perturb_function(&current_params) at iteration n (experiment.rs:79).
perturb_function(current, n) == Params(n, current.id)

IsInf(a) == a.class \in {"neg_inf", "pos_inf"}

\* current_score - new_score (experiment.rs:89), by sign: NaN when a score
\* is NaN or both are the same infinity; infinite when one score is.
delta_goodness(current, new_score) ==
    IF \/ current.class = "nan"
       \/ new_score.class = "nan"
       \/ IsInf(current) /\ current = new_score
    THEN [sign |-> "nan", infinite |-> FALSE]
    ELSE [sign |-> IF Gt(new_score, current) THEN "neg"
                   ELSE IF Gt(current, new_score) THEN "pos" ELSE "zero",
          infinite |-> IsInf(current) \/ IsInf(new_score)]

\* The sign of a temperature.
FluxSign(flux) ==
    CASE flux.class = "nan" -> "nan"
      [] flux.class \in {"neg_inf", "min"} -> "neg"
      [] flux.class = "pos_inf" -> "pos"
      [] flux.class = "finite" ->
           IF flux.v < 0 THEN "neg" ELSE IF flux.v = 0 THEN "zero" ELSE "pos"

\* Mutant: a better candidate is taken only while the temperature is positive.
explore_parallel_world_hot(delta, flux) ==
    IF delta.sign = "neg" THEN {FluxSign(flux) = "pos"}
    ELSE IF delta.sign = "nan" \/ FluxSign(flux) = "nan" THEN {FALSE}
    ELSE IF delta.sign = "zero"
    THEN {FluxSign(flux) # "zero"}
    ELSE CASE FluxSign(flux) = "zero" -> {FALSE}
           [] FluxSign(flux) = "neg" -> {~(delta.infinite /\ IsInf(flux))}
           [] FluxSign(flux) = "pos" ->
                IF IsInf(flux) THEN {~delta.infinite}
                ELSE IF delta.infinite THEN {FALSE} ELSE {TRUE, FALSE}

\* Mutant: with delta 0 the draw may fall either way.
explore_parallel_world_tie(delta, flux) ==
    IF delta.sign = "neg" THEN {TRUE}
    ELSE IF delta.sign = "nan" \/ FluxSign(flux) = "nan" THEN {FALSE}
    ELSE IF delta.sign = "zero"
    THEN IF FluxSign(flux) = "zero" THEN {FALSE} ELSE {TRUE, FALSE}
    ELSE CASE FluxSign(flux) = "zero" -> {FALSE}
           [] FluxSign(flux) = "neg" -> {~(delta.infinite /\ IsInf(flux))}
           [] FluxSign(flux) = "pos" ->
                IF IsInf(flux) THEN {~delta.infinite}
                ELSE IF delta.infinite THEN {FALSE} ELSE {TRUE, FALSE}

\* explore_parallel_world (experiment.rs:90-96): the outcomes the draw
\* random_range(0.0..1.0) < exp(-delta_goodness / chaotic_flux) can have.
\* delta < 0: true.  Otherwise the exponent is NaN (never below), -inf
\* (probability 0), negative (either outcome), or zero or positive
\* (probability at least 1, always below).
explore_parallel_world(delta, flux) ==
    IF delta.sign = "neg" THEN {TRUE}
    ELSE IF delta.sign = "nan" \/ FluxSign(flux) = "nan" THEN {FALSE}
    ELSE IF delta.sign = "zero"
    THEN {FluxSign(flux) # "zero"}
    ELSE CASE FluxSign(flux) = "zero" -> {FALSE}
           [] FluxSign(flux) = "neg" -> {~(delta.infinite /\ IsInf(flux))}
           [] FluxSign(flux) = "pos" ->
                IF IsInf(flux) THEN {~delta.infinite}
                ELSE IF delta.infinite THEN {FALSE} ELSE {TRUE, FALSE}

\* Mutant: an accepted candidate that ties the best score replaces the best.
BestAfter_ge(best, current) ==
    IF Gt(current.score, best.score) \/ current.score = best.score
    THEN current ELSE best

\* Mutant: the best parameters are never replaced.
BestAfter_keep(best, current) == best

\* if current_score > best_score { best = current } (experiment.rs:102-105)
BestAfter(best, current) ==
    IF Gt(current.score, best.score) THEN current ELSE best

\* simulated_annealing_experiment is called: the initial parameters are
\* generated, run and scored (experiment.rs:60-67).
InitAnnealing ==
    /\ KernelIdle
    /\ experiment = "annealing"
    /\ replications_limit \in 0..MaxAnnealing
    /\ approx_optimal_simulation = None
    /\ high_score = MIN
    /\ replication = 0
    /\ \E score \in Scores :
          /\ samples = <<score>>
          /\ current_score = score
          /\ best_score = score
    /\ work = [generated |-> 1, constructed |-> 1, scored |-> 1]
    /\ returned = None
    /\ current_params = Params(0, 0)
    /\ best_params = Params(0, 0)
    /\ iteration = 0
    /\ trail = <<>>

\* chaotic_mana, the loop variable of (1..=replications_limit).rev(), in the
\* iteration that follows done completed ones (experiment.rs:69).
chaotic_mana(limit, done) == limit - done

\* Mutant: the schedule is given the remaining mana.
summon_argument_mana(limit, mana) == mana

\* k = replications_limit - chaotic_mana + 1, the argument of
\* summon_chaotic_flux (experiment.rs:75-76).
summon_argument(limit, mana) == limit - mana + 1

\* One iteration of the annealing loop (experiment.rs:69-107).
AnnealingStep ==
    /\ experiment = "annealing"
    /\ iteration < replications_limit
    /\ \E chaotic_flux \in Fluxes, new_score \in Scores :
          LET new_params == perturb_function(current_params, iteration + 1)
              delta == delta_goodness(current_score, new_score)
          IN \E explore \in explore_parallel_world(delta, chaotic_flux) :
                LET current == IF explore
                               THEN [params |-> new_params, score |-> new_score]
                               ELSE [params |-> current_params,
                                     score |-> current_score]
                    best == IF explore
                            THEN BestAfter([params |-> best_params,
                                            score |-> best_score], current)
                            ELSE [params |-> best_params, score |-> best_score]
                IN /\ current_params' = current.params
                   /\ current_score' = current.score
                   /\ best_params' = best.params
                   /\ best_score' = best.score
                   /\ samples' = Append(samples, new_score)
                   /\ trail' = Append(trail,
                          [flux |-> chaotic_flux,
                           accepted |-> explore,
                           k |-> summon_argument(replications_limit,
                                     chaotic_mana(replications_limit, iteration)),
                           params |-> new_params])
    /\ work' = [generated |-> work.generated + 1,
                constructed |-> work.constructed + 1,
                scored |-> work.scored + 1]
    /\ iteration' = iteration + 1
    /\ UNCHANGED <<kernel, experiment, replications_limit,
                   approx_optimal_simulation, high_score, replication, returned>>

\* The loop is over: Some(best_params) is returned (experiment.rs:109).
AnnealingReturn ==
    /\ experiment = "annealing"
    /\ iteration = replications_limit
    /\ experiment' = "annealing_returned"
    /\ returned' = Some(best_params)
    /\ UNCHANGED <<kernel, replications_limit, approx_optimal_simulation,
                   high_score, replication, samples, work, current_params,
                   best_params, current_score, best_score, iteration, trail>>

NextAnnealing ==
    \/ AnnealingStep
    \/ AnnealingReturn

SpecAnnealing == InitAnnealing /\ [][NextAnnealing]_vars

\* ================================================================ claims

\* C1: a periodic producer (period 1, Proactive, sending to the consumer)
\* followed by a periodic consumer (period 1, Reactive), started at time 0
\* with halt predicate time == T, T >= 1: when run returns the producer has
\* produced T messages and consumed none, the consumer has consumed T - 1
\* and produced none.
C1_PeriodicCounts ==
    (pc = "done" /\ agents[1].period = 1 /\ agents[2].period = 1) =>
        /\ calc_produced_len_statistics["producer"] = halt_check.T
        /\ calc_produced_len_statistics["consumer"] = 0
        /\ calc_consumed_len_statistics["producer"] = 0
        /\ calc_consumed_len_statistics["consumer"] = halt_check.T - 1

\* The run of tests::basic_periodic_test: T = 5 gives 5 and 4.
C1_Witness ==
    /\ pc = "done"
    /\ agents[1].period = 1 /\ agents[2].period = 1
    /\ halt_check = TimeEq(5)
    /\ calc_produced_len_statistics["producer"] = 5
    /\ calc_consumed_len_statistics["consumer"] = 4

\* C9: under a time-based halt predicate, from starting time s, run ends
\* after finitely many ticks whatever the agents do: with time == T and
\* s <= T after exactly T - s ticks at time T, with time > T at time
\* max(s, T + 1).  In every state the number of ticks started is within
\* that count, and run can take a step until it has returned.
FinalTime ==
    CASE halt_check.kind = "time_eq" -> halt_check.T
      [] halt_check.kind = "time_gt" -> Max(starting_time, halt_check.T + 1)
      [] halt_check.kind = "always" -> starting_time

C9_Termination ==
    /\ ticks <= FinalTime - starting_time
    /\ pc # "done" => ENABLED Next
    /\ pc = "done" => /\ time = FinalTime
                      /\ ticks = FinalTime - starting_time

\* A run from starting time 1 under time > T is over at time T + 1 after
\* T ticks in which user-written agents issued commands.
C9_Witness ==
    /\ pc = "done"
    /\ halt_check.kind = "time_gt"
    /\ starting_time = 1
    /\ time = halt_check.T + 1
    /\ ticks >= 1
    /\ issued = MaxIssued

\* C10: every executed tick increments the time by exactly one, whether or
\* not an agent acted or a command was issued; the time does not change
\* inside a tick, and the number of ticks executed is the time minus the
\* starting time.
C10_TimeCountsTicks ==
    /\ pc \in {"constructed", "check", "done"} => time = starting_time + ticks
    /\ pc \in {"dispatch", "drain"} => time = starting_time + ticks - 1

\* A run of several ticks in which no callback was ever invoked and no
\* command issued.
C10_Witness ==
    /\ pc = "done"
    /\ ticks >= 2
    /\ time = starting_time + ticks
    /\ \A k \in DOMAIN agent_states :
          /\ agent_states[k].produced = <<>>
          /\ agent_states[k].consumed = <<>>
          /\ sends_issued[k] = 0
    /\ issued = 0

\* The handle run uses for roster entry k (lib.rs:219-220).
HandleOf(k) == agent_id_index_map[agents[k].id]

\* C2: once a HaltSimulation command has been drained in tick t (the
\* simulation mode is Completed while run has not returned), the rest of
\* that tick's buffer is still applied, the time advances to t + 1, and run
\* returns without executing another tick, whatever the halt predicate: run
\* is draining tick t, or at the loop condition with an empty buffer, and
\* never again in the dispatch phase.
C2_HaltProperty ==
    (mode = "Completed" /\ pc # "done") =>
        \/ pc = "drain"
        \/ pc = "check" /\ command_buffer = <<>>

\* C3: every message popped during dispatch is appended to the consumed log
\* or put back at the front of the queue, whatever the agent's mode; so at
\* every tick boundary the messages ever delivered to an agent (initial
\* queue plus routed sends) are its queue plus its consumed log.
C3_MessageLifecycle ==
    pc \in {"constructed", "check", "done"} =>
        \A h \in DOMAIN agent_states :
            Len(arrived[h]) =
                Len(agent_states[h].queue) + Len(agent_states[h].consumed)

\* C5: a message whose processing reports Failed or InProgress in tick t is
\* at the front of the agent's queue at the start of tick t + 1, and is the
\* next message passed to that agent's on_message, whatever commands the
\* agent issued in tick t.
C5_RetryProperty ==
    [][\A k \in DOMAIN agents :
          LET h == HandleOf(k)
          IN /\ ( /\ pc = "drain" /\ pc' = "check"
                  /\ calls[k].fn = "on_message"
                  /\ pending_retry[h] # None
                  /\ calls[k].msg = pending_retry[h] )
                  => front(agent_states'[h].queue) = pending_retry[h]
             /\ ( /\ pc = "dispatch" /\ i = k
                  /\ calls'[k].fn = "on_message"
                  /\ pending_retry[h] # None )
                  => calls'[k].msg = pending_retry[h]]_vars

\* C4 as stated: an agent whose mode is AsleepUntil(t) is not invoked in a
\* tick earlier than t, and the wake check of tick t, before any dispatch
\* of that tick, restores its wake mode: every wake-up happens at tick t.
C4_WakeExactlyAtT ==
    /\ pc = "dispatch" =>
          \A k \in DOMAIN agents :
              LET m == agent_states[HandleOf(k)].mode
              IN IsAsleep(m) => (time < m.until /\ calls[k].fn = "none")
    /\ \A h \in DOMAIN agent_states :
          last_wake[h] # None =>
              /\ last_wake[h][1].at = last_wake[h][1].until
              /\ last_wake[h][1].mode = agent_states[h].wake_mode
    /\ pc = "dispatch" =>
          \A k \in 1..(i - 1) :
              LET h == HandleOf(k)
              IN (last_wake[h] # None /\ last_wake[h][1].at = time) =>
                     CASE agent_states[h].wake_mode = Proactive ->
                            calls[k].fn = "on_tick"
                       [] agent_states[h].wake_mode = Reactive ->
                            \/ calls[k].fn = "on_message"
                            \/ agent_states[h].queue = <<>>
                       [] OTHER -> calls[k].fn = "none"

\* C4 as amended: an agent whose mode is AsleepUntil(t) is not invoked
\* while time < t; the wake check restores its wake mode (Proactive,
\* Reactive or Dead), before any dispatch, at the first tick at or after t
\* that starts after the mode was set: at tick t when t is later than the
\* tick in which the mode was set, else at the tick after that one
\* (Sleep(0), or an initial AsleepUntil(t) with t below the starting time).
C4_WakeAtFirstCheck ==
    /\ pc = "dispatch" =>
          \A k \in DOMAIN agents :
              LET m == agent_states[HandleOf(k)].mode
              IN IsAsleep(m) => (time < m.until /\ calls[k].fn = "none")
    /\ \A h \in DOMAIN agent_states :
          last_wake[h] # None =>
              /\ last_wake[h][1].at =
                     Max(last_wake[h][1].until, last_wake[h][1].set_at + 1)
              /\ last_wake[h][1].mode = agent_states[h].wake_mode
    /\ pc = "dispatch" =>
          \A k \in 1..(i - 1) :
              LET h == HandleOf(k)
              IN (last_wake[h] # None /\ last_wake[h][1].at = time) =>
                     CASE agent_states[h].wake_mode = Proactive ->
                            calls[k].fn = "on_tick"
                       [] agent_states[h].wake_mode = Reactive ->
                            \/ calls[k].fn = "on_message"
                            \/ agent_states[h].queue = <<>>
                       [] OTHER -> calls[k].fn = "none"

\* An agent that a Sleep(2) command put to sleep two ticks ago has been
\* woken by this tick's wake check and invoked.
C4_Witness ==
    \E k \in DOMAIN agents :
        LET h == HandleOf(k)
        IN /\ last_wake[h] # None
           /\ last_wake[h][1].at = time
           /\ last_wake[h][1].until = time
           /\ last_wake[h][1].set_at = time - 2
           /\ last_wake[h][1].set_at >= starting_time
           /\ calls[k].fn # "none"

\* C6: for an agent whose processing never reports Failed or InProgress,
\* the consumed log is an order-preserving subsequence of the sequence of
\* messages appended to its queue.
Unstamped(log) == [j \in 1..Len(log) |-> [log[j] EXCEPT !.completed_time = None]]

RECURSIVE IsSubsequence(_, _)
IsSubsequence(sub, seq) ==
    IF sub = <<>> THEN TRUE
    ELSE IF seq = <<>> THEN FALSE
    ELSE IF Head(sub) = Head(seq) THEN IsSubsequence(Tail(sub), Tail(seq))
    ELSE IsSubsequence(sub, Tail(seq))

C6_Fifo ==
    \A h \in DOMAIN agent_states :
        ~failed[h] =>
            IsSubsequence(Unstamped(agent_states[h].consumed), arrived[h])

\* An agent that never failed has consumed an initial message and then a
\* routed one, with a further message still queued.
C6_Witness ==
    \E h \in DOMAIN agent_states :
        /\ ~failed[h]
        /\ Len(agent_states[h].consumed) >= 2
        /\ agent_states[h].consumed[1].source = "setup"
        /\ agent_states[h].consumed[2].source # "setup"
        /\ agent_states[h].queue # <<>>

\* C7: during the dispatch phase no command has an effect: no queue gains a
\* message, no agent's mode changes, no produced log grows and the
\* simulation mode stays; so a message created by a context send in tick t
\* is passed to on_message in tick t + 1 at the earliest.
C7_DeferredEffects ==
    [][/\ pc = "dispatch" =>
             /\ mode' = mode
             /\ \A h \in DOMAIN agent_states :
                   /\ agent_states'[h].mode = agent_states[h].mode
                   /\ agent_states'[h].wake_mode = agent_states[h].wake_mode
                   /\ agent_states'[h].produced = agent_states[h].produced
                   /\ \/ agent_states'[h].queue = agent_states[h].queue
                      \/ /\ agent_states[h].queue # <<>>
                         /\ agent_states'[h].queue = Tail(agent_states[h].queue)
       /\ \A k \in DOMAIN calls' :
             ( /\ calls'[k].fn = "on_message"
               /\ calls'[k].msg[1].source # "setup" )
             => calls'[k].msg[1].queued_time < time']_vars

\* In the dispatch phase a user-written agent has been passed a message that
\* was sent in the previous tick, and commands are waiting in the buffer.
C7_Witness ==
    /\ pc = "dispatch"
    /\ command_buffer # <<>>
    /\ \E k \in DOMAIN calls :
          /\ calls[k].fn = "on_message"
          /\ agents[k].kind = "User"
          /\ calls[k].msg[1].source # "setup"
          /\ calls[k].msg[1].queued_time + 1 = time

\* C8: draining a SendMessage whose destination is not in the roster leaves
\* every queue unchanged and appends the message to the sender's produced
\* log; when the destination exists the message is appended to the back of
\* its queue and to the sender's produced log.  At every tick boundary each
\* produced log is as long as the number of SendMessage commands the agent
\* has issued.
C8_FireAndForget ==
    [][/\ ( /\ pc = "drain" /\ command_buffer # <<>>
            /\ last(command_buffer).ty.tag = "SendMessage" ) =>
             LET c == last(command_buffer)
                 m == c.ty.message
                 known == \E k \in DOMAIN agents : agents[k].id = m.destination
             IN /\ pc' = "drain"
                /\ \A h \in DOMAIN agent_states :
                      /\ agent_states'[h].produced =
                             IF h = c.agent_handle
                             THEN Append(agent_states[h].produced, m)
                             ELSE agent_states[h].produced
                      /\ agent_states'[h].queue =
                             IF known /\ h = agent_id_index_map[m.destination]
                             THEN Append(agent_states[h].queue, m)
                             ELSE agent_states[h].queue
                      /\ agent_states'[h].mode = agent_states[h].mode
                      /\ agent_states'[h].consumed = agent_states[h].consumed
       /\ pc' \in {"check", "done"} =>
             \A h \in DOMAIN agent_states :
                 Len(agent_states'[h].produced) = sends_issued'[h]]_vars

\* A message sent to a name that is not in the roster is in its sender's
\* produced log, and in no queue and no consumed log.
C8_Witness ==
    \E h \in DOMAIN agent_states :
        \E j \in DOMAIN agent_states[h].produced :
            LET m == agent_states[h].produced[j]
            IN /\ m.destination = "nobody"
               /\ \A g \in DOMAIN agent_states :
                     /\ \A q \in DOMAIN agent_states[g].queue :
                           agent_states[g].queue[q] # m
                     /\ \A q \in DOMAIN agent_states[g].consumed :
                           agent_states[g].consumed[q].custom_payload # m.custom_payload

\* C11: after on_message is invoked on a popped message, a reported status
\* of Initialized or Completed appends the message to the agent's consumed
\* log with completed_time = the current tick and leaves it out of the
\* queue; InProgress or Failed puts it back at the front of the queue with
\* no completed_time and leaves the consumed log unchanged.
C11_StatusOutcome ==
    [][(pc = "dispatch" /\ calls'[i].fn = "on_message") =>
          LET h == HandleOf(i)
              before == agent_states[h]
              after == agent_states'[h]
              m == calls'[i].msg[1]
          IN /\ before.queue # <<>> /\ m = Head(before.queue)
             /\ IF calls'[i].status \in {"Initialized", "Completed"}
                THEN /\ after.consumed =
                            Append(before.consumed,
                                   [m EXCEPT !.completed_time = Some(time)])
                     /\ after.queue = Tail(before.queue)
                     /\ \A q \in DOMAIN after.queue : after.queue[q] # m
                ELSE /\ calls'[i].status \in {"InProgress", "Failed"}
                     /\ after.queue = before.queue
                     /\ Head(after.queue) = m
                     /\ m.completed_time = None
                     /\ after.consumed = before.consumed]_vars

\* An agent that has consumed a message earlier reports InProgress for the
\* next one, which is back at the front of its queue.
C11_Witness ==
    \E k \in DOMAIN calls :
        /\ calls[k].fn = "on_message"
        /\ calls[k].status = "InProgress"
        /\ agent_states[HandleOf(k)].consumed # <<>>
        /\ agent_states[HandleOf(k)].queue # <<>>
        /\ Head(agent_states[HandleOf(k)].queue) = calls[k].msg[1]

\* C12: in each tick the roster is dispatched once each in roster order;
\* on_tick is invoked iff the mode is Proactive, on_message iff the mode is
\* Reactive and the queue was non-empty, neither for AsleepUntil or Dead;
\* a consumed log grows only while its agent is Reactive and only an agent
\* whose callback was invoked adds commands to the buffer.
C12_DispatchByMode ==
    [][/\ pc = "dispatch" =>
             LET h == HandleOf(i)
                 m == agent_states[h].mode
                 q == agent_states[h].queue
             IN /\ calls[i].fn = "none"
                /\ \A k \in DOMAIN calls : k >= i => calls[k].fn = "none"
                /\ \A k \in DOMAIN calls : k # i => calls'[k] = calls[k]
                /\ (calls'[i].fn = "on_tick") <=> (m = Proactive)
                /\ (calls'[i].fn = "on_message") <=> (m = Reactive /\ q # <<>>)
                /\ (IsAsleep(m) \/ m = Dead) => calls'[i].fn = "none"
                /\ IF i < N THEN i' = i + 1 /\ pc' = "dispatch"
                   ELSE pc' = "drain"
                /\ command_buffer' # command_buffer => calls'[i].fn # "none"
                /\ \A g \in DOMAIN agent_states :
                      agent_states'[g].consumed # agent_states[g].consumed =>
                          (g = h /\ m = Reactive)
       /\ pc # "dispatch" =>
             /\ \A g \in DOMAIN agent_states :
                   agent_states'[g].consumed = agent_states[g].consumed
             /\ \A k \in DOMAIN calls : calls'[k].fn \in {calls[k].fn, "none"}]_vars

\* At the end of a dispatch phase one agent was ticked, the other was passed
\* a message, in a tick in which a third of the cases, a sleeping agent with
\* a queued message, was left alone earlier.
C12_Witness ==
    /\ pc = "drain"
    /\ \E k, j \in DOMAIN calls :
          /\ calls[k].fn = "on_tick"
          /\ calls[j].fn = "on_message"
          /\ agent_states[HandleOf(k)].queue # <<>>

\* C13: draining Sleep(d) issued by an agent during tick t sets that
\* agent's mode to AsleepUntil(t + d), t being the tick of issue (time has
\* not advanced), and changes no other agent's mode.
C13_SleepDrain ==
    [][( /\ pc = "drain" /\ command_buffer # <<>>
         /\ last(command_buffer).ty.tag = "Sleep" ) =>
          LET c == last(command_buffer)
          IN /\ time = starting_time + ticks - 1
             /\ time' = time
             /\ \E k \in DOMAIN calls :
                   HandleOf(k) = c.agent_handle /\ calls[k].fn # "none"
             /\ \A h \in DOMAIN agent_states :
                   agent_states'[h] =
                       IF h = c.agent_handle
                       THEN [agent_states[h] EXCEPT
                               !.mode = AsleepUntil(time + c.ty.ticks)]
                       ELSE agent_states[h]]_vars

\* In the second tick or later a Sleep(2) has just been drained: its issuer
\* sleeps until time + 2 and the other agent does not sleep.
C13_Witness ==
    /\ pc = "drain"
    /\ time > starting_time
    /\ \E h, g \in DOMAIN agent_states :
          /\ asleep_set_at[h] = time
          /\ agent_states[h].mode = AsleepUntil(time + 2)
          /\ ~IsAsleep(agent_states[g].mode)

\* C14: the command buffer is empty at the start of every tick; the drain
\* removes the buffered commands one at a time in the tick that issued
\* them, and time advances only over an empty buffer, so no command is
\* carried into a later tick.
C14_BufferDrained ==
    [][/\ pc \in {"check", "done"} => command_buffer = <<>>
       /\ pc' \in {"check", "done"} => command_buffer' = <<>>
       /\ time' # time => (command_buffer = <<>> /\ command_buffer' = <<>>)
       /\ ticks' # ticks => (command_buffer = <<>> /\ command_buffer' = <<>>)
       /\ (pc = "drain" /\ command_buffer # <<>>) =>
             /\ command_buffer' =
                    SubSeq(command_buffer, 1, Len(command_buffer) - 1)
             /\ time' = time /\ pc' = "drain"
       /\ pc = "dispatch" =>
             /\ Len(command_buffer') >= Len(command_buffer)
             /\ SubSeq(command_buffer', 1, Len(command_buffer)) = command_buffer]_vars

\* A tick in which two commands were issued has ended: the next tick is
\* about to start with an empty buffer.
C14_Witness ==
    /\ pc = "check"
    /\ ticks >= 1
    /\ issued >= 2
    /\ command_buffer = <<>>
    /\ \E h \in DOMAIN agent_states : asleep_set_at[h] = time - 1

\* C15: a Simulation is Constructed after new, Running when run starts and
\* Completed when run returns, also when no tick executes; the mode is
\* never Failed and never goes from Completed back to Running.
C15_RunModes ==
    [][/\ pc = "constructed" => (mode = "Constructed" /\ mode' = "Running")
       /\ pc' = "done" => mode' = "Completed"
       /\ mode' \in {"Constructed", "Running", "Completed"}
       /\ mode' # "Failed"
       /\ mode = "Completed" => mode' = "Completed"
       /\ mode = "Running" => mode' \in {"Running", "Completed"}]_vars

\* run has returned without executing a tick, and the mode is Completed.
C15_Witness ==
    /\ pc = "done"
    /\ ticks = 0
    /\ mode = "Completed"

\* C16: once an agent's mode is Dead, it stays Dead, no callback is invoked
\* on it, it adds no command to the buffer and its consumed and produced
\* logs do not grow.
C16_DeadAbsorbing ==
    [][/\ \A h \in DOMAIN agent_states :
             agent_states[h].mode = Dead =>
                 /\ agent_states'[h].mode = Dead
                 /\ agent_states'[h].consumed = agent_states[h].consumed
                 /\ agent_states'[h].produced = agent_states[h].produced
                 /\ \A c \in DOMAIN command_buffer' :
                       command_buffer'[c].agent_handle # h
       /\ \A k \in DOMAIN calls :
             agent_states[HandleOf(k)].mode = Dead => calls'[k].fn = "none"]_vars

\* An agent that slept with wake mode Dead was woken in an earlier tick; it
\* is Dead and has been passed over in this tick's dispatch while a message
\* was in its queue at the wake-up.
C16_Witness ==
    \E k \in DOMAIN calls :
        LET h == HandleOf(k)
        IN /\ last_wake[h] # None
           /\ last_wake[h][1].at < time
           /\ agent_states[h].mode = Dead
           /\ pc = "drain"
           /\ arrived[h] # <<>>

\* C17: an agent's mode changes only by the wake check, from AsleepUntil(t)
\* with t <= time to its wake mode, or by the drain of a Sleep command that
\* the same agent issued, to AsleepUntil.
C17_ModeChanges ==
    [][\A h \in DOMAIN agent_states :
          agent_states'[h].mode # agent_states[h].mode =>
              \/ /\ pc = "check" /\ pc' # "done"
                 /\ IsAsleep(agent_states[h].mode)
                 /\ agent_states[h].mode.until <= time
                 /\ agent_states'[h].mode = agent_states[h].wake_mode
              \/ /\ pc = "drain" /\ command_buffer # <<>>
                 /\ last(command_buffer).ty.tag = "Sleep"
                 /\ last(command_buffer).agent_handle = h
                 /\ IsAsleep(agent_states'[h].mode)]_vars

\* A message is delivered to an agent that is asleep, and the agent is still
\* asleep after the delivery.
C17_Witness ==
    /\ pc = "drain"
    /\ \E h \in DOMAIN agent_states :
          /\ IsAsleep(agent_states[h].mode)
          /\ agent_states[h].queue # <<>>
          /\ agent_states[h].queue[Len(agent_states[h].queue)].queued_time = time
          /\ agent_states[h].queue[Len(agent_states[h].queue)].source # "setup"

\* C18: each agent's consumed log and produced log only grow by appending:
\* the log before a step is a prefix of the log after it.
IsPrefix(earlier, later) ==
    /\ Len(earlier) <= Len(later)
    /\ SubSeq(later, 1, Len(earlier)) = earlier

C18_AppendOnly ==
    [][\A h \in DOMAIN agent_states :
          /\ IsPrefix(agent_states[h].consumed, agent_states'[h].consumed)
          /\ IsPrefix(agent_states[h].produced, agent_states'[h].produced)]_vars

\* One agent has consumed two messages and one has produced two.
C18_Witness ==
    /\ \E h \in DOMAIN agent_states : Len(agent_states[h].consumed) >= 2
    /\ \E h \in DOMAIN agent_states : Len(agent_states[h].produced) >= 2

\* C19: a by-name query for a name that is not in the roster returns an
\* absent result, does not fault, and leaves the simulation unchanged.
C19_AbsentLookup ==
    (last_query # None /\ last_query[1].query.id = "nobody") =>
        /\ last_query[1].outcome = "returned"
        /\ last_query[1].result = None
        /\ pc # "panicked"

C22_AbsentOnlyForZero ==
    experiment = "monte_carlo_returned" =>
        ((returned = None) <=> (replications_limit = 0))

\* C23: for replication limit N the Monte Carlo search calls the generator
\* N times, constructs and runs N Simulations and scores each once,
\* whatever the scores.
C23_NoEarlyTermination ==
    /\ work.generated = replication
    /\ work.constructed = replication
    /\ work.scored = replication
    /\ Len(samples) = replication
    /\ replication <= replications_limit
    /\ experiment = "monte_carlo_returned" => replication = replications_limit

\* A search of three replications has returned; its first run already had
\* the highest score there is.
C23_Witness ==
    /\ experiment = "monte_carlo_returned"
    /\ replications_limit = 3
    /\ work.scored = 3
    /\ samples[1] = Finite(1)
    /\ returned = Some(Sampled(1, Finite(1)))

\* C24: in an annealing iteration whose temperature is 0 or negative, a
\* candidate that scores strictly below the current score is not accepted:
\* current and current_score are unchanged.
C24_ColdNeverWorse ==
    [][( /\ iteration' = iteration + 1
         /\ FluxSign(trail'[iteration'].flux) \in {"zero", "neg"}
         /\ Gt(current_score, samples'[Len(samples')]) ) =>
            /\ current_params' = current_params
            /\ current_score' = current_score]_vars

\* C25: in an annealing iteration a candidate that scores strictly above the
\* current score is accepted whatever the temperature and the draw: current
\* and current_score become the candidate's.
C25_BetterAlwaysAccepted ==
    [][( /\ iteration' = iteration + 1
         /\ Gt(samples'[Len(samples')], current_score) ) =>
            /\ trail'[iteration'].accepted
            /\ current_params' = perturb_function(current_params, iteration')
            /\ current_score' = samples'[Len(samples')]]_vars

\* At temperature 0 the first candidate scored above the initial score and
\* became current.
C25_Witness ==
    /\ iteration >= 1
    /\ trail[1].flux = Finite(0)
    /\ Gt(samples[2], samples[1])
    /\ trail[1].accepted
    /\ (iteration = 1 => current_params.id = 1)

\* C26: simulated annealing returns Some(best_params), the parameters whose
\* run scored best_score, after N iterations of one run each (N + 1 runs);
\* they are the initial parameters when no accepted candidate scored
\* strictly above the initial score, also for N = 0.
C26_ReturnsBest ==
    experiment = "annealing_returned" =>
        /\ returned = Some(best_params)
        /\ iteration = replications_limit
        /\ work.constructed = replications_limit + 1
        /\ samples[best_params.id + 1] = best_score
        /\ \A j \in DOMAIN trail :
              trail[j].accepted => ~Gt(samples[j + 1], best_score)
        /\ (\A j \in DOMAIN trail :
               trail[j].accepted => ~Gt(samples[j + 1], samples[1]))
           => best_params = Params(0, 0)
        /\ replications_limit = 0 => (best_params = Params(0, 0) /\ Len(samples) = 1)

\* Two iterations were run; a candidate that tied the initial score was
\* accepted, none scored above it, and the initial parameters are returned.
C26_Witness ==
    /\ experiment = "annealing_returned"
    /\ replications_limit = 2
    /\ \E j \in DOMAIN trail : trail[j].accepted /\ samples[j + 1] = samples[1]
    /\ returned = Some(Params(0, 0))

\* The waits of the first n entries of a consumed log, added up.
RECURSIVE TotalWait(_, _)
TotalWait(log, n) ==
    IF n = 0 THEN 0
    ELSE TotalWait(log, n - 1) + (log[n].completed_time[1] - log[n].queued_time)

SelfAddressed(message) == message.source = message.destination

\* C28: a message an agent sends to its own id is handled like any other
\* send: the drain of the tick it was issued in appends it to the back of
\* the sender's own queue and of its produced log, and it is passed to
\* on_message no earlier than the next tick.
C28_SelfSend ==
    [][/\ ( /\ pc = "drain"
            /\ command_buffer' # command_buffer
            /\ last(command_buffer).ty.tag = "SendMessage"
            /\ SelfAddressed(last(command_buffer).ty.message)
            /\ agents[last(command_buffer).agent_handle].id
                   = last(command_buffer).ty.message.source ) =>
              LET command == last(command_buffer)
                  h == command.agent_handle
                  message == command.ty.message
              IN /\ message.queued_time = time
                 /\ agent_states'[h].queue = Append(agent_states[h].queue, message)
                 /\ agent_states'[h].produced =
                        Append(agent_states[h].produced, message)
                 /\ \A k \in DOMAIN agent_states : k # h =>
                        agent_states'[k] = agent_states[k]
       /\ \A k \in DOMAIN calls' :
             ( /\ calls'[k].fn = "on_message"
               /\ SelfAddressed(calls'[k].msg[1])
               /\ calls'[k].msg[1].source = agents[k].id ) =>
                  calls'[k].msg[1].queued_time + 1 <= time']_vars

\* An agent is passed, one tick after it sent it, a message it addressed to
\* itself; the message is in its produced log.
C28_Witness ==
    \E k \in DOMAIN calls :
        /\ calls[k].fn = "on_message"
        /\ SelfAddressed(calls[k].msg[1])
        /\ calls[k].msg[1].source = agents[k].id
        /\ calls[k].msg[1].queued_time + 1 = time
        /\ \E j \in DOMAIN agent_states[k].produced :
              agent_states[k].produced[j].custom_payload = calls[k].msg[1].custom_payload

\* Whether command earlier was issued before command later in one tick:
\* by an agent earlier in the roster, or by the same agent in an earlier
\* context call (the payload serials of a user-written agent's messages
\* grow with the calls).
IssuedBefore(earlier, later) ==
    /\ earlier.agent_handle <= later.agent_handle
    /\ ( /\ earlier.agent_handle = later.agent_handle
         /\ earlier.ty.tag = "SendMessage"
         /\ later.ty.tag = "SendMessage"
         /\ earlier.ty.message.custom_payload # None
         /\ later.ty.message.custom_payload # None ) =>
            earlier.ty.message.custom_payload[1] < later.ty.message.custom_payload[1]

\* C29: the command buffer is drained as a stack.  Each step of the drain
\* takes the command issued last among those left and applies it, so two
\* messages to one destination are enqueued in reverse issue order, and of
\* several Sleeps of one agent the first issued is applied last and sets
\* the wake tick.
C29_StackDrain ==
    [][(pc = "drain" /\ command_buffer' # command_buffer) =>
          LET command == last(command_buffer)
              h == command.agent_handle
          IN /\ command_buffer' = pop_last(command_buffer)
             /\ \A j \in DOMAIN command_buffer' :
                   IssuedBefore(command_buffer'[j], command)
             /\ command.ty.tag = "SendMessage" =>
                   LET message == command.ty.message
                       known == message.destination \in DOMAIN agent_id_index_map
                   IN /\ agent_states'[h].produced =
                             Append(agent_states[h].produced, message)
                      /\ \A k \in DOMAIN agent_states :
                            agent_states'[k].queue =
                                IF known /\ agent_id_index_map[message.destination] = k
                                THEN Append(agent_states[k].queue, message)
                                ELSE agent_states[k].queue
             /\ command.ty.tag = "Sleep" =>
                   /\ agent_states'[h].mode = AsleepUntil(time + command.ty.ticks)
                   /\ \A k \in DOMAIN agent_states :
                         k # h => agent_states'[k] = agent_states[k]
             /\ command.ty.tag = "HaltSimulation" =>
                   agent_states' = agent_states /\ mode' = "Completed"
             /\ \A k \in DOMAIN agent_states :
                   ( /\ agent_states'[k].mode # agent_states[k].mode
                     /\ ~\E j \in DOMAIN command_buffer' :
                            /\ command_buffer'[j].agent_handle = k
                            /\ command_buffer'[j].ty.tag = "Sleep" ) =>
                      /\ k = h
                      /\ \A j \in DOMAIN command_buffer :
                            ( /\ command_buffer[j].agent_handle = k
                              /\ command_buffer[j].ty.tag = "Sleep" ) =>
                               j = Len(command_buffer)]_vars

\* The producer is first in the roster and the user-written agent second;
\* both sent to the same agent in one tick, and the later agent's message
\* was enqueued ahead of the earlier agent's.
C29_Witness ==
    /\ agents[1].kind = "PeriodicProducer"
    /\ \E d \in DOMAIN arrived :
          \E p \in DOMAIN arrived[d] :
              /\ p + 1 \in DOMAIN arrived[d]
              /\ arrived[d][p].source = agents[2].id
              /\ arrived[d][p + 1].source = agents[1].id
              /\ arrived[d][p].queued_time = arrived[d][p + 1].queued_time

\* Of two Sleeps one agent issued in a tick the later one has been applied
\* and the first one is still to come.
C29_SleepsReversed ==
    /\ pc = "drain"
    /\ Len(command_buffer) = 1
    /\ command_buffer[1].ty.tag = "Sleep"
    /\ agent_states[command_buffer[1].agent_handle].mode.tag = "AsleepUntil"
    /\ asleep_set_at[command_buffer[1].agent_handle] = time
    /\ agent_states[command_buffer[1].agent_handle].mode.until
           # time + command_buffer[1].ty.ticks

\* C30: with the queue-depth metric enabled every executed tick appends to
\* each agent's series exactly one sample, the length of the agent's queue
\* right after the pop (before a requeue and before the tick's deliveries),
\* so a series is as long as the number of ticks executed; with the metric
\* disabled every series stays empty.
C30_QueueDepthSeries ==
    [][/\ \A k \in DOMAIN agents :
             LET series == agent_metadata_hash_table'[agents[k].id].queue_depth_metrics
                 sampled == pc' \in {"drain", "check", "done"}
                            \/ (pc' = "dispatch" /\ k < i')
             IN IF enable_queue_depth_metric
                THEN Len(series) = IF sampled THEN ticks' ELSE ticks' - 1
                ELSE series = <<>>
       /\ (pc = "dispatch" /\ enable_queue_depth_metric) =>
             \A k \in DOMAIN agents :
                 agent_metadata_hash_table'[agents[k].id].queue_depth_metrics =
                     IF k = i
                     THEN Append(agent_metadata_hash_table[agents[k].id].queue_depth_metrics,
                                 Len(pop_front(agent_states[k].queue)))
                     ELSE agent_metadata_hash_table[agents[k].id].queue_depth_metrics]_vars

\* A run with the metric enabled returned after two ticks; an agent's
\* series has two samples, the first taken with a message left behind the
\* popped one, and a sleeping agent was sampled too.
C30_Witness ==
    /\ pc = "done"
    /\ enable_queue_depth_metric
    /\ ticks = 2
    /\ \E k \in DOMAIN agents :
          /\ Len(agent_metadata_hash_table[agents[k].id].queue_depth_metrics) = 2
          /\ agent_metadata_hash_table[agents[k].id].queue_depth_metrics[1] = 1
    /\ \E k \in DOMAIN agents : IsAsleep(agent_states[k].mode)

\* C31: with the asleep-cycle metric enabled an agent's asleep_cycle_count
\* grows by one in exactly the dispatches that find its mode AsleepUntil
\* (the tick's wake check has run), and in no other step, so it counts the
\* executed ticks the agent slept through; with the metric disabled the
\* count stays 0.
C31_AsleepCycleCount ==
    [][\A k \in DOMAIN agents :
          LET before == agent_metadata_hash_table[agents[k].id].asleep_cycle_count
              after == agent_metadata_hash_table'[agents[k].id].asleep_cycle_count
          IN /\ after =
                   IF /\ enable_agent_asleep_cycles_metric
                      /\ pc = "dispatch"
                      /\ k = i
                      /\ agent_states[k].mode.tag = "AsleepUntil"
                   THEN before + 1
                   ELSE before
             /\ ~enable_agent_asleep_cycles_metric => after = 0
             /\ after <= ticks']_vars

\* A run with the metric enabled returned after two ticks; an agent slept
\* through one of them and acted in the other.
C31_Witness ==
    /\ pc = "done"
    /\ enable_agent_asleep_cycles_metric
    /\ ticks = 2
    /\ \E k \in DOMAIN agents :
          /\ agent_metadata_hash_table[agents[k].id].asleep_cycle_count = 1
          /\ agents[k].kind = "User"

\* The later of the roster positions that carry the name n.
LaterEntry(n) ==
    CHOOSE k \in DOMAIN agents :
        /\ agents[k].id = n
        /\ \A j \in DOMAIN agents : agents[j].id = n => j <= k

\* C32: a roster with two entries of one name is constructed without a
\* failure; the name-to-index map has one entry for the name, the later
\* roster position, and by-name lookups, the dispatch of either entry and
\* the routing of messages to the name all use the later entry's state.
C32_LastWriteWins ==
    [][/\ Len(agent_states') = Len(agents')
       /\ DOMAIN agent_id_index_map' = {agents[k].id : k \in DOMAIN agents}
       /\ \A n \in DOMAIN agent_id_index_map' :
             agent_id_index_map'[n] = LaterEntry(n)
       /\ pc = "constructed" => mode = "Constructed"
       /\ \A n \in {agents[k].id : k \in DOMAIN agents} :
             LET state == agent_states'[LaterEntry(n)]
             IN /\ agent_state(n)' = Some(state)
                /\ agent_state_mut(n)' = Some(state)
                /\ consumed_for_agent(n)' = Some(state.consumed)
                /\ produced_for_agent(n)' = Some(state.produced)
       /\ pc = "dispatch" =>
             \A k \in DOMAIN agent_states :
                 k # LaterEntry(agents[i].id) => agent_states'[k] = agent_states[k]
       /\ ( /\ pc = "drain"
            /\ command_buffer' # command_buffer
            /\ last(command_buffer).ty.tag = "SendMessage"
            /\ last(command_buffer).ty.message.destination
                   \in {agents[k].id : k \in DOMAIN agents} ) =>
             LET message == last(command_buffer).ty.message
             IN \A k \in DOMAIN agent_states :
                   agent_states'[k].queue =
                       IF k = LaterEntry(message.destination)
                       THEN Append(agent_states[k].queue, message)
                       ELSE agent_states[k].queue]_vars

\* Both roster entries are named alike; a message sent during the run to
\* that name was consumed from the later entry's state, the earlier
\* entry's logs are empty, and consumed_for_agent returns the later log.
C32_Witness ==
    /\ Len(agents) = 2
    /\ agents[1].id = agents[2].id
    /\ agent_id_index_map[agents[1].id] = 2
    /\ pc = "done"
    /\ consumed_for_agent(agents[1].id) = Some(agent_states[2].consumed)
    /\ \E j \in DOMAIN agent_states[2].consumed :
          agent_states[2].consumed[j].source = agents[1].id
    /\ agent_states[1].consumed = <<>>
    /\ agent_states[1].produced = <<>>

\* The greatest element of a non-empty set of numbers.
LatestOf(S) == CHOOSE x \in S : \A y \in S : y <= x

\* C33: simulated annealing with replication limit N runs N + 1
\* simulations, the initial one and one candidate per iteration; the
\* cooling schedule is called once per iteration, with k = 1, 2, ..., N in
\* this order; each candidate is the perturbation of the parameters that
\* are current in its iteration (the latest accepted candidate, or the
\* initial parameters), not of the best ones.
C33_OneRunPerIteration ==
    /\ experiment \in {"annealing", "annealing_returned"} =>
          /\ work.constructed = iteration + 1
          /\ work.scored = iteration + 1
          /\ Len(samples) = iteration + 1
          /\ Len(trail) = iteration
          /\ iteration <= replications_limit
          /\ \A j \in DOMAIN trail :
                /\ trail[j].k = j
                /\ trail[j].params.id = j
                /\ trail[j].params.from =
                       LatestOf({0} \cup {l \in 1..(j - 1) : trail[l].accepted})
    /\ experiment = "annealing_returned" => iteration = replications_limit

\* Two iterations were run and the search returned; the first candidate
\* was accepted although it scored below the initial run, so the second
\* candidate was perturbed from it while the best parameters were still
\* the initial ones.
C33_Witness ==
    /\ experiment = "annealing_returned"
    /\ replications_limit = 2
    /\ trail[1].accepted
    /\ Gt(samples[1], samples[2])
    /\ trail[2].params.from = 1
    /\ trail[2].k = 2
    /\ best_params.id = 0
    /\ work.constructed = 3

\* a >= b on f64: false when either side is NaN.
Ge(a, b) == Gt(a, b) \/ (a = b /\ a.class # "nan")

\* After the step: best_score is at least current_score, is the score of
\* a simulation evaluated so far and is outscored by none of them; over
\* the step best_score did not decrease.
BestIsMaximum ==
    /\ Ge(best_score', current_score')
    /\ \E j \in DOMAIN samples' : samples'[j] = best_score'
    /\ \A j \in DOMAIN samples' : Ge(best_score', samples'[j])
    /\ Ge(best_score', best_score)

\* C34 as stated: in simulated annealing best_score >= current_score after
\* every iteration, best_score never decreases, and best_score is the
\* maximum score over every simulation evaluated so far.
C34_BestIsMaximum ==
    [][experiment = "annealing" => BestIsMaximum]_vars

\* C34 amended: when the initial score is not NaN, best_score >=
\* current_score after every iteration, best_score never decreases, and
\* best_score is the score of an evaluated simulation that no evaluated
\* simulation outscores (a candidate that scores NaN is never accepted and
\* is not compared).
C34_BestIsMaximumOfNumbers ==
    [][(experiment = "annealing" /\ samples[1].class # "nan") =>
          /\ Ge(best_score', current_score')
          /\ \E j \in DOMAIN samples' : samples'[j] = best_score'
          /\ \A j \in DOMAIN samples' : ~Gt(samples'[j], best_score')
          /\ \A j \in DOMAIN trail' :
                samples'[j + 1].class = "nan" => ~trail'[j].accepted
          /\ Ge(best_score', best_score)]_vars

\* Two iterations: the first candidate outscored the initial run and
\* became the best, the second scored lower and was accepted, so the
\* current score is below the best.
C34_Witness ==
    /\ experiment = "annealing"
    /\ iteration = 2
    /\ samples = <<Finite(0), Finite(1), Finite(0)>>
    /\ trail[2].accepted
    /\ best_score = Finite(1)
    /\ current_score = Finite(0)

\* a == b on f64: false when either side is NaN.
Eq(a, b) == a = b /\ a.class # "nan"

\* C35 as stated: in an annealing iteration with a positive temperature a
\* candidate whose score equals the current score is always accepted.
C35_TieAccepted ==
    [][( /\ iteration' = iteration + 1
         /\ FluxSign(trail'[iteration'].flux) = "pos"
         /\ Eq(samples'[Len(samples')], current_score) ) =>
            /\ trail'[iteration'].accepted
            /\ current_params' = trail'[iteration'].params]_vars

\* C35 amended: in an annealing iteration with a positive temperature a
\* candidate whose score is finite and equals the current score is always
\* accepted: delta is 0, the acceptance probability 1, and the draw from
\* [0, 1) is below it.
C35_FiniteTieAccepted ==
    [][( /\ iteration' = iteration + 1
         /\ FluxSign(trail'[iteration'].flux) = "pos"
         /\ Eq(samples'[Len(samples')], current_score)
         /\ ~IsInf(current_score) ) =>
            /\ delta_goodness(current_score, samples'[Len(samples')]).sign = "zero"
            /\ trail'[iteration'].accepted
            /\ current_params' = trail'[iteration'].params
            /\ current_score' = current_score]_vars

\* At temperature 1 the first candidate scored 0 like the initial run and
\* became current.
C35_Witness ==
    /\ iteration = 1
    /\ trail[1].flux = Finite(1)
    /\ samples = <<Finite(0), Finite(0)>>
    /\ trail[1].accepted
    /\ current_params.id = 1
    /\ best_params.id = 0

\* The halt predicate is evaluated at the head of the loop and nowhere
\* else: a step from the loop head starts a tick when the predicate is
\* false and ends the run when it is true; a tick that has started runs
\* through dispatch, a full drain and the time advance whatever the
\* predicate has become meanwhile.
EvaluatedOncePerTick ==
    /\ pc = "check" =>
          IF HaltCheck
          THEN /\ pc' = "done"
               /\ ticks' = ticks
               /\ time' = time
               /\ agent_states' = agent_states
          ELSE /\ pc' \in {"dispatch", "drain"}
               /\ ticks' = ticks + 1
    /\ pc \in {"dispatch", "drain"} =>
          /\ pc' \in {"dispatch", "drain", "check"}
          /\ ticks' = ticks
          /\ pc' = "check" =>
                /\ pc = "drain"
                /\ command_buffer = <<>>
                /\ time' = time + 1
    /\ halt_check = Always =>
          /\ ticks' = 0
          /\ time' = time
          /\ agent_states' = agent_states

\* C36 as stated: the halt predicate is evaluated once before each tick
\* and never inside a tick; it was false at the start of every executed
\* tick and it is true on the final state when run returns; with the
\* default parameters run executes no tick and leaves time, queues and
\* logs unchanged.
C36_HaltEvaluation ==
    [][/\ EvaluatedOncePerTick
       /\ pc' = "done" => HaltCheck']_vars

\* C36 amended: the same, except that the predicate is true on the state
\* on which it was last evaluated, which is the final state but for the
\* mode, set to Completed afterwards; it is true on the final state when
\* it does not read the mode.
C36_HaltEvaluationBeforeReturn ==
    [][/\ EvaluatedOncePerTick
       /\ (pc' = "done" /\ pc # "done") => HaltCheck
       /\ (pc' = "done" /\ halt_check.kind # "mode_or_time") => HaltCheck']_vars

\* A run under |s| s.mode == Completed || s.time == T returned before time
\* T: a HaltSimulation made the predicate true inside a tick, the tick ran
\* to its end, and the next evaluation ended the run.
C36_Witness ==
    /\ pc = "done"
    /\ halt_check = ModeOrTime("Completed", MaxTime - 1)
    /\ ticks >= 1
    /\ time = ticks
    /\ time < MaxTime - 1
    /\ \E k \in DOMAIN agent_states : agent_states[k].produced # <<>>

\* C37: with unique agent names an agent consumes at most one message per
\* tick: a step adds at most one entry to a consumed log, a log is never
\* longer than the number of ticks executed, and its completed_time values
\* are strictly increasing.
C37_OnePerTick ==
    [][\A k \in DOMAIN agent_states :
          LET log == agent_states'[k].consumed
          IN /\ Len(log) <= Len(agent_states[k].consumed) + 1
             /\ Len(log) <= ticks'
             /\ \A p \in DOMAIN log :
                   /\ log[p].completed_time # None
                   /\ log[p].completed_time[1] < starting_time + ticks'
                   /\ \A q \in DOMAIN log :
                         p < q => log[p].completed_time[1] < log[q].completed_time[1]]_vars

\* An agent with two queued messages consumed one in each of two ticks.
C37_Witness ==
    /\ pc = "done"
    /\ ticks = 2
    /\ \E k \in DOMAIN agent_states :
          /\ Len(agent_states[k].consumed) = 2
          /\ agent_states[k].consumed[1].completed_time = Some(starting_time)
          /\ agent_states[k].consumed[2].completed_time = Some(starting_time + 1)

\* C38: every consumed message that was created by a context send has
\* completed_time >= queued_time + 1: it is stamped with the tick it was
\* issued in and is dispatched in a later tick, so completed_time -
\* queued_time in the wait statistics does not underflow for it.
C38_SentWaitsATick ==
    \A k \in DOMAIN agent_states :
        \A p \in DOMAIN agent_states[k].consumed :
            LET m == agent_states[k].consumed[p]
            IN m.source \in {agents[j].id : j \in DOMAIN agents} =>
                  /\ m.completed_time # None
                  /\ m.completed_time[1] >= m.queued_time + 1
                  /\ m.queued_time >= starting_time

\* A message an agent sent was consumed in the tick after the send.
C38_Witness ==
    \E k \in DOMAIN agent_states :
        \E p \in DOMAIN agent_states[k].consumed :
            LET m == agent_states[k].consumed[p]
            IN /\ m.source \in {agents[j].id : j \in DOMAIN agents}
               /\ m.completed_time = Some(m.queued_time + 1)

\* C39: no step changes an agent's wake mode, and a step leaves an agent's
\* mode as it was, or makes it AsleepUntil(t), or, from AsleepUntil, makes
\* it the wake mode; so the mode is always the initial mode, the wake mode
\* or AsleepUntil(t), and Proactive and Reactive are exchanged only by
\* sleeping and waking into the wake mode.
C39_WakeModeFixed ==
    [][\A k \in DOMAIN agent_states :
          /\ agent_states'[k].wake_mode = agent_states[k].wake_mode
          /\ \/ agent_states'[k].mode = agent_states[k].mode
             \/ agent_states'[k].mode.tag = "AsleepUntil"
             \/ /\ agent_states[k].mode.tag = "AsleepUntil"
                /\ agent_states'[k].mode = agent_states[k].wake_mode]_vars

\* A user-written agent whose wake mode is Reactive has acted in on_tick
\* only (it sent without consuming or failing a message), has slept, and
\* was woken Reactive.
C39_Witness ==
    \E k \in DOMAIN agent_states :
        /\ agents[k].kind = "User"
        /\ agent_states[k].wake_mode = Reactive
        /\ agent_states[k].mode = Reactive
        /\ last_wake[k] # None
        /\ last_wake[k][1].set_at >= starting_time
        /\ agent_states[k].produced # <<>>
        /\ agent_states[k].consumed = <<>>
        /\ ~failed[k]

\* The tick at which an agent put to sleep by a Sleep(d) drained in tick
\* set_at, d = until - set_at, is woken.
DueTick(set_at, until) == set_at + Max(until - set_at, 1)

C40_SleepZero ==
    \E k \in DOMAIN agent_states :
        /\ last_wake[k] # None
        /\ last_wake[k][1].set_at >= starting_time
        /\ last_wake[k][1].until = last_wake[k][1].set_at
        /\ last_wake[k][1].at = last_wake[k][1].set_at + 1

====
